---- MODULE Spec2Model ----
(***************************************************************************)
(* A model of perceive (dimfeld/perceive): the scan pipeline               *)
(* (scanner -> reconciler -> readers -> embedder -> writer) with the CLI   *)
(* scan command around it, the batch-accumulating sender, and the          *)
(* per-source search index.                                                *)
(*                                                                         *)
(* Option<T> is modelled as a sequence of length 0 (None) or 1 (Some(x)).  *)
(***************************************************************************)
EXTENDS Integers, Sequences, FiniteSets, TLC

\* ------------------------------------------------------------------ bounds

\* Number of items the scanner emits in one scan.
MaxItems == 2
\* Number of reader workers (READ_PARALLELISM = 8 in the source, scaled down).
NumReaders == 2
\* Embedder batch size (EMBEDDING_BATCH_SIZE = 64 in the source, scaled down).
EMBEDDING_BATCH_SIZE == 2
\* Producer threads sharing one BatchSender, and the items each adds.
NumProducers == 2
ItemsPerProducer == 2
\* The BatchSender's flush threshold (64 in the scanners, scaled down).
Threshold == 2
\* Largest num_results asked of a search.
MaxK == 2
\* Longest byte buffer and longest vector given to the embedding codec.
MaxBytes == 8
MaxFloats == 2
\* CountingVecSender: clones, batches each clone sends, items per batch.
NumClones == 2
BatchesPerClone == 2
MaxBatchLen == 2
\* Single-producer BatchSender: thresholds and numbers of items tried.
MaxThreshold == 3
MaxAdds == 6

\* ------------------------------------------------------- program constants

\* Capacity of the reconciler -> readers channel.
MatchedCapacity == 256
\* Capacity of the embedder -> writer channel.
EmbeddingsCapacity == 8

\* ------------------------------------------------------------------ values

None == <<>>
Some(x) == <<x>>

\* The sources of the store; a scan works on one of them.
SourceIds == {1, 2}
\* (model_id, model_version) of the running program, and another identity
\* whose embedding rows may already be stored.
ModelKey == [model_id |-> 0, model_version |-> 0]
OtherModelKey == [model_id |-> 1, model_version |-> 0]

ExtSeq == <<"e1", "e2">>
ExtIds == {ExtSeq[i] : i \in DOMAIN ExtSeq}
Strategies == {"MTimeAndContent", "MTime", "Content", "Force"}

should_compare_mtime(s) == s \in {"MTimeAndContent", "MTime"}
should_compare_content(s) == s \in {"MTimeAndContent", "Content"}

unwrap_or_default(o) == IF o = None THEN "" ELSE o[1]

\* trim(): " " stands for any all-whitespace string.
trim(s) == IF s = " " THEN "" ELSE s

VARIABLES
    \* --- the store
    items,            \* items table: sequence of rows, row id = index
    item_embeddings,  \* item_embeddings table: set of rows
    db_source,        \* the persisted row of the source (sources table)
    \* --- the CLI's state
    source,           \* state.sources[source_pos]
    cmd_pc,           \* position of the scan command
    scan_result,      \* what pipeline::scan_source returned
    strategy,         \* compare strategy of this scan (input)
    \* --- pipeline channels
    item_ch, matched_ch, content_ch, emb_ch,
    \* --- pipeline stages
    to_scan,          \* batches the scanner has still to emit (input)
    stage,            \* result of each stage thread: running / ok / err
    lookup_batch,     \* reconciler: rest of the batch in hand
    lookup_found,     \* reconciler: the `found` map of the batch in hand
    reader_hold,      \* reader w: the item it is about to send
    batch, documents, \* embedder buffers
    stats,            \* ScanStats counters
    errored, logged,  \* join phase
    \* --- history (not program state)
    matched_log,      \* what the reconciler decided, with its inputs
    read_log,         \* what each read returned
    written,          \* what the writer committed, in order
    faults,           \* failures injected from outside the pipeline
    pre_items, pre_embeddings,  \* the store when the scan started
    scan_versions,    \* the index_version each scan so far has run with
    \* --- the embedding model
    model_at,         \* who owns the Model value
    encode_callers    \* history: the threads that called model.encode in this scan

\* The store, and everything else of a scan.
storeVars == <<items, item_embeddings>>
pipelineVars == <<db_source, source, cmd_pc, scan_result,
                  strategy, item_ch, matched_ch, content_ch, emb_ch,
                  to_scan, stage, lookup_batch, lookup_found, reader_hold, batch,
                  documents, stats, errored, logged, matched_log, read_log, written,
                  faults, pre_items, pre_embeddings, scan_versions,
                  model_at, encode_callers>>
scanVars == <<storeVars, pipelineVars>>

VARIABLES
    \* --- BatchSenderInner and the threads using it
    bs_buffer,        \* buffer: SegQueue<T>
    bs_threshold,     \* threshold
    bs_lock,          \* flush_lock: 0 when free, else the thread holding it
    bs_handles,       \* Arc strong count: clones of the sender still alive
    bs_pc,            \* position of each producer thread
    bs_todo,          \* items each producer has still to add
    bs_output_len,    \* flush local: output_len
    bs_output,        \* flush local: output
    bs_rx_open,       \* whether the downstream receiver is still alive
    bs_sent,          \* batches delivered downstream, in order
    \* --- history (not program state)
    bs_accepted,      \* items whose add returned Ok
    bs_last           \* how the last flush of each thread ended

bsVars == <<bs_buffer, bs_threshold, bs_lock, bs_handles, bs_pc, bs_todo, bs_output_len,
            bs_output, bs_rx_open, bs_sent, bs_accepted, bs_last>>

VARIABLES
    \* --- the Searcher
    searcher_sources, \* sources: Vec<SourceSearch>, each an id and its labelled points
    searcher_hidden,  \* hidden: HashSet<i64>
    \* --- history (not program state)
    search_call,      \* the search in progress: arguments, per-source lists, results
    search_prev       \* the last search that returned since the index was last rebuilt

searchVars == <<searcher_sources, searcher_hidden, search_call, search_prev>>

VARIABLES
    \* --- one call of a function checked on its own (history, not program state)
    call_args,        \* the function and its arguments
    call_result       \* what it returned, once it has

callVars == <<call_args, call_result>>

VARIABLES
    \* --- a CountingVecSender, its clones and the channel behind it
    cvs_count,        \* count: the shared AtomicU64
    cvs_pc,           \* position of each clone's thread inside send
    cvs_todo,         \* batches each clone has still to send (input)
    cvs_ch,           \* batches in the channel
    cvs_rx_open,      \* whether the receiver is still alive
    \* --- history (not program state)
    cvs_passed,       \* batches passed to send so far
    cvs_received      \* batches the receiver has been given

VARIABLES
    \* --- the model worker thread, its command channel and the callers
    mw_rx,            \* commands waiting in the flume channel, oldest first
    mw_senders,       \* flume::Sender handles still alive
    mw_pc,            \* the worker: "recv", "handling", "exited" or "panicked"
    mw_msg,           \* the command the worker is handling, if any
    mw_next,          \* commands built so far (input)
    \* --- history (not program state)
    mw_replies,       \* per command, what return_value.send was given
    mw_order          \* commands in the order the worker handled them

mwVars == <<mw_rx, mw_senders, mw_pc, mw_msg, mw_next, mw_replies, mw_order>>

cvsVars == <<cvs_count, cvs_pc, cvs_todo, cvs_ch, cvs_rx_open, cvs_passed, cvs_received>>

notScanVars == <<bsVars, searchVars, callVars, cvsVars, mwVars>>
notBsVars == <<scanVars, searchVars, callVars, cvsVars, mwVars>>
notSearchVars == <<scanVars, bsVars, callVars, cvsVars, mwVars>>

notCvsVars == <<scanVars, bsVars, searchVars, callVars, mwVars>>

notMwVars == <<scanVars, bsVars, searchVars, callVars, cvsVars>>

vars == <<scanVars, bsVars, searchVars, callVars, cvsVars, mwVars>>

\* No function is called on its own.
CallQuiet == call_args = <<>> /\ call_result = <<>>

\* No model worker has been started.
MwQuiet ==
    /\ mw_rx = <<>>
    /\ mw_senders = 0
    /\ mw_pc = "exited"
    /\ mw_msg = <<>>
    /\ mw_next = 0
    /\ mw_replies = <<>>
    /\ mw_order = <<>>

\* No CountingVecSender exists.
CvsQuiet ==
    /\ cvs_count = 0
    /\ cvs_pc = <<>>
    /\ cvs_todo = <<>>
    /\ cvs_ch = <<>>
    /\ cvs_rx_open = TRUE
    /\ cvs_passed = <<>>
    /\ cvs_received = <<>>

\* No Searcher has been built.
SearchQuiet ==
    /\ searcher_sources = <<>>
    /\ searcher_hidden = {}
    /\ search_call = <<>>
    /\ search_prev = <<>>

Readers == 1..NumReaders
ReaderName(w) == <<"read_items", w>>
StageNames == {<<"scanner", 0>>, <<"db_lookup", 0>>, <<"embedder", 0>>, <<"db_writer", 0>>}
                \cup {ReaderName(w) : w \in Readers}
Scanner == <<"scanner", 0>>
Lookup == <<"db_lookup", 0>>
Embedder == <<"embedder", 0>>
Writer == <<"db_writer", 0>>

\* ------------------------------------------------------------ BatchSender

Producers == 1..NumProducers

\* The items producer p adds, each one distinct.
ProducerItems(p) == [i \in 1..ItemsPerProducer |-> <<p, i>>]
AllProducerItems == {<<p, i>> : p \in Producers, i \in 1..ItemsPerProducer}

\* One clone of the sender per producer; nothing buffered, nothing sent.
BSInit ==
    /\ bs_buffer = <<>>
    /\ bs_threshold = Threshold
    /\ bs_lock = 0
    /\ bs_handles = NumProducers
    /\ bs_pc = [p \in Producers |-> "idle"]
    /\ bs_todo = [p \in Producers |-> ProducerItems(p)]
    /\ bs_output_len = [p \in Producers |-> 0]
    /\ bs_output = [p \in Producers |-> <<>>]
    /\ bs_rx_open = TRUE
    /\ bs_sent = <<>>
    /\ bs_accepted = {}
    /\ bs_last = [p \in Producers |-> "none"]

\* No sender exists.
BSQuiet ==
    /\ bs_buffer = <<>>
    /\ bs_threshold = Threshold
    /\ bs_lock = 0
    /\ bs_handles = 0
    /\ bs_pc = [p \in Producers |-> "gone"]
    /\ bs_todo = [p \in Producers |-> <<>>]
    /\ bs_output_len = [p \in Producers |-> 0]
    /\ bs_output = [p \in Producers |-> <<>>]
    /\ bs_rx_open = TRUE
    /\ bs_sent = <<>>
    /\ bs_accepted = {}
    /\ bs_last = [p \in Producers |-> "none"]

\* flush returns to its caller. Inside add (an item is in hand): Ok accepts
\* the item, Err makes the producer give up its remaining items. Inside
\* drop the result is discarded (.ok()) and the thread is done.
BSReturn(p, ok) ==
    IF bs_todo[p] = <<>>
    THEN /\ bs_pc' = [bs_pc EXCEPT ![p] = "gone"]
         /\ UNCHANGED <<bs_todo, bs_accepted>>
    ELSE /\ bs_pc' = [bs_pc EXCEPT ![p] = "idle"]
         /\ IF ok
            THEN /\ bs_accepted' = bs_accepted \cup {Head(bs_todo[p])}
                 /\ bs_todo' = [bs_todo EXCEPT ![p] = Tail(@)]
            ELSE /\ bs_todo' = [bs_todo EXCEPT ![p] = <<>>]
                 /\ UNCHANGED bs_accepted

\* add: self.buffer.push(item)
Add(p) ==
    /\ bs_pc[p] = "idle"
    /\ bs_todo[p] # <<>>
    /\ bs_buffer' = Append(bs_buffer, Head(bs_todo[p]))
    /\ bs_pc' = [bs_pc EXCEPT ![p] = "check"]
    /\ UNCHANGED <<bs_lock, bs_handles, bs_todo, bs_output_len, bs_output,
                   bs_rx_open, bs_sent, bs_accepted, bs_last, bs_threshold, notBsVars>>

\* A sender that flushes only once the buffer holds more than threshold items.
over_threshold(len, threshold) == len > threshold

\* self.buffer.len() >= self.threshold
reached_threshold(len, threshold) == len >= threshold

\* add: if self.buffer.len() >= self.threshold { self.flush(false)?; } Ok(())
AddCheck(p) ==
    /\ bs_pc[p] = "check"
    /\ IF reached_threshold(Len(bs_buffer), bs_threshold)
       THEN /\ bs_pc' = [bs_pc EXCEPT ![p] = "try_lock"]
            /\ UNCHANGED <<bs_todo, bs_accepted>>
       ELSE BSReturn(p, TRUE)
    /\ UNCHANGED <<bs_buffer, bs_lock, bs_handles, bs_output_len, bs_output,
                   bs_rx_open, bs_sent, bs_last, bs_threshold, notBsVars>>

\* A flush(false) that takes the token whether or not it is free.
FlushTryLock_Barging(p) ==
    /\ bs_pc[p] = "try_lock"
    /\ bs_lock' = p
    /\ bs_pc' = [bs_pc EXCEPT ![p] = "len"]
    /\ UNCHANGED <<bs_todo, bs_accepted, bs_last>>
    /\ UNCHANGED <<bs_buffer, bs_handles, bs_output_len, bs_output,
                   bs_rx_open, bs_sent, bs_threshold, notBsVars>>

\* flush(false): try_lock, and return Ok(()) when another flush holds it.
FlushTryLock(p) ==
    /\ bs_pc[p] = "try_lock"
    /\ IF bs_lock = 0
       THEN /\ bs_lock' = p
            /\ bs_pc' = [bs_pc EXCEPT ![p] = "len"]
            /\ UNCHANGED <<bs_todo, bs_accepted>>
       ELSE /\ BSReturn(p, TRUE)
            /\ UNCHANGED bs_lock
    /\ bs_last' = IF bs_lock = 0 THEN bs_last ELSE [bs_last EXCEPT ![p] = "busy"]
    /\ UNCHANGED <<bs_buffer, bs_handles, bs_output_len, bs_output,
                   bs_rx_open, bs_sent, bs_threshold, notBsVars>>

\* flush(true): lock, waiting for it.
FlushLock(p) ==
    /\ bs_pc[p] = "lock"
    /\ bs_lock = 0
    /\ bs_lock' = p
    /\ bs_pc' = [bs_pc EXCEPT ![p] = "len"]
    /\ UNCHANGED <<bs_buffer, bs_handles, bs_todo, bs_output_len, bs_output,
                   bs_rx_open, bs_sent, bs_accepted, bs_last, bs_threshold, notBsVars>>

\* A flush that takes one item fewer than the buffer holds.
output_len_short(buffer) == IF Len(buffer) > 1 THEN Len(buffer) - 1 ELSE Len(buffer)

\* let output_len = self.buffer.len();
output_len(buffer) == Len(buffer)

\* flush: read output_len; return (releasing the lock) when it is 0.
FlushLen(p) ==
    /\ bs_pc[p] = "len"
    /\ bs_output_len' = [bs_output_len EXCEPT ![p] = output_len(bs_buffer)]
    /\ IF output_len(bs_buffer) = 0
       THEN /\ bs_lock' = 0
            /\ BSReturn(p, TRUE)
       ELSE /\ bs_pc' = [bs_pc EXCEPT ![p] = "pop"]
            /\ UNCHANGED <<bs_lock, bs_todo, bs_accepted>>
    /\ bs_last' = IF output_len(bs_buffer) = 0 THEN [bs_last EXCEPT ![p] = "empty"] ELSE bs_last
    /\ UNCHANGED <<bs_buffer, bs_handles, bs_output, bs_rx_open, bs_sent, bs_threshold, notBsVars>>

\* flush: one turn of
\* while output.len() < output_len && !self.buffer.is_empty() { pop; push }
FlushPop(p) ==
    /\ bs_pc[p] = "pop"
    /\ IF Len(bs_output[p]) < bs_output_len[p] /\ bs_buffer # <<>>
       THEN /\ bs_output' = [bs_output EXCEPT ![p] = Append(@, Head(bs_buffer))]
            /\ bs_buffer' = Tail(bs_buffer)
            /\ UNCHANGED bs_pc
       ELSE /\ bs_pc' = [bs_pc EXCEPT ![p] = "unlock"]
            /\ UNCHANGED <<bs_output, bs_buffer>>
    /\ UNCHANGED <<bs_lock, bs_handles, bs_todo, bs_output_len,
                   bs_rx_open, bs_sent, bs_accepted, bs_last, bs_threshold, notBsVars>>

\* flush: drop(lock)
FlushUnlock(p) ==
    /\ bs_pc[p] = "unlock"
    /\ bs_lock' = 0
    /\ bs_pc' = [bs_pc EXCEPT ![p] = "send"]
    /\ UNCHANGED <<bs_buffer, bs_handles, bs_todo, bs_output_len, bs_output,
                   bs_rx_open, bs_sent, bs_accepted, bs_last, bs_threshold, notBsVars>>

\* flush: self.tx.send(output)?; Ok(()). The send fails once the receiver
\* is gone, and the batch goes back to the caller inside the error.
FlushSend(p) ==
    /\ bs_pc[p] = "send"
    /\ bs_output' = [bs_output EXCEPT ![p] = <<>>]
    /\ IF bs_rx_open
       THEN /\ bs_sent' = Append(bs_sent, bs_output[p])
            /\ BSReturn(p, TRUE)
       ELSE /\ BSReturn(p, FALSE)
            /\ UNCHANGED bs_sent
    /\ bs_last' = [bs_last EXCEPT ![p] = IF bs_rx_open THEN "sent" ELSE "send_failed"]
    /\ UNCHANGED <<bs_buffer, bs_lock, bs_handles, bs_output_len, bs_rx_open, bs_threshold, notBsVars>>

\* A producer is done and drops its clone; dropping the last one runs
\* BatchSenderInner::drop, which is flush(true).ok().
DropHandle(p) ==
    /\ bs_pc[p] = "idle"
    /\ bs_todo[p] = <<>>
    /\ bs_handles' = bs_handles - 1
    /\ bs_pc' = [bs_pc EXCEPT ![p] = IF bs_handles = 1 THEN "lock" ELSE "gone"]
    /\ UNCHANGED <<bs_buffer, bs_lock, bs_todo, bs_output_len, bs_output,
                   bs_rx_open, bs_sent, bs_accepted, bs_last, bs_threshold, notBsVars>>

\* The consumer drops the receiving end of the channel.
ReceiverDrop ==
    /\ bs_rx_open
    /\ bs_handles > 0
    /\ bs_rx_open' = FALSE
    /\ UNCHANGED <<bs_buffer, bs_lock, bs_handles, bs_pc, bs_todo, bs_output_len,
                   bs_output, bs_sent, bs_accepted, bs_last, bs_threshold, notBsVars>>

NextBatch ==
    \/ \E p \in Producers : Add(p)
    \/ \E p \in Producers : AddCheck(p)
    \/ \E p \in Producers : FlushTryLock(p)
    \/ \E p \in Producers : FlushLock(p)
    \/ \E p \in Producers : FlushLen(p)
    \/ \E p \in Producers : FlushPop(p)
    \/ \E p \in Producers : FlushUnlock(p)
    \/ \E p \in Producers : FlushSend(p)
    \/ \E p \in Producers : DropHandle(p)
    \/ ReceiverDrop

\* ---------------------------------------------------------- scan inputs

\* An Item as a scanner emits it (fs.rs visit, chromium_bookmarks.rs
\* walk_bookmarks): no content yet, id -1.
NewItem(sid, ext, mtime) ==
    [source_id |-> sid, external_id |-> ext, hash |-> None, content |-> None,
     process_version |-> 0, skipped |-> None, name |-> None, description |-> None,
     mtime |-> mtime, atime |-> Some(2), id |-> -1, seq |-> 0]

ScannedItems == {NewItem(1, e, m) : e \in ExtIds, m \in {None, Some(1), Some(2)}}

\* All sequences over S of length 1..n.
RECURSIVE SeqsUpTo(_, _)
SeqsUpTo(S, n) ==
    IF n = 0 THEN {}
    ELSE LET shorter == SeqsUpTo(S, n - 1)
         IN  {<<x>> : x \in S} \cup shorter \cup {Append(q, x) : q \in shorter, x \in S}

\* All ways to cut a sequence into consecutive non-empty batches.
RECURSIVE Batchings(_)
Batchings(q) ==
    IF q = <<>> THEN {<<>>}
    ELSE UNION {{<<SubSeq(q, 1, k)>> \o rest : rest \in Batchings(SubSeq(q, k + 1, Len(q)))}
                : k \in 1..Len(q)}

\* seq numbers the items of a scan in the order the scanner found them (it
\* is not a field of the program's Item: it tells two equal items apart).
Numbered(q) == [i \in DOMAIN q |-> [q[i] EXCEPT !.seq = i]]

ScanLists(S) ==
    {<<>>} \cup UNION {Batchings(Numbered(q)) : q \in SeqsUpTo(S, MaxItems)}

\* The scans of the whole-pipeline specification: items whose external id
\* may repeat, with a modified time equal to or later than the stored one.
PipelineItems ==
    {NewItem(1, "e1", Some(1)), NewItem(1, "e1", Some(2)), NewItem(1, "e2", Some(1))}

\* A row of the items table as an earlier scan left it.
OldRow(ext, modified) ==
    [id |-> 0, source_id |-> 1, external_id |-> ext, version |-> 1, hash |-> "",
     content |-> "a", process_version |-> 0, name |-> None, description |-> None,
     modified |-> modified, last_accessed |-> Some(1), skipped |-> None,
     hidden_at |-> None]

EmbeddingRow(id, version, embedding, key) ==
    [item_id |-> id, item_index_version |-> version, embedding |-> embedding,
     model_id |-> key.model_id, model_version |-> key.model_version]

\* What the store may hold for one external id before the scan: nothing, or
\* a row with or without a modified time, with an embedding for this model
\* identity, for the other one, or none.
RowChoices == {<<"absent">>} \cup ({"row"} \X {None, Some(1)} \X {"this", "other", "none"})

\* choice: one RowChoices element per position of ExtSeq.
RECURSIVE BuildRows(_, _, _)
BuildRows(choice, i, rows) ==
    IF i > Len(ExtSeq) THEN rows
    ELSE IF choice[i][1] = "absent" THEN BuildRows(choice, i + 1, rows)
         ELSE BuildRows(choice, i + 1,
                        Append(rows, [OldRow(ExtSeq[i], choice[i][2]) EXCEPT !.id = Len(rows) + 1]))

RowId(rows, ext) == CHOOSE i \in 1..Len(rows) : rows[i].external_id = ext

BuildEmbeddings(choice, rows) ==
    {EmbeddingRow(RowId(rows, ExtSeq[i]), 1, <<"vec", <<"old">>>>,
                  IF choice[i][3] = "this" THEN ModelKey ELSE OtherModelKey)
       : i \in {j \in DOMAIN ExtSeq : choice[j][1] # "absent" /\ choice[j][3] # "none"}}

StoreChoices == [DOMAIN ExtSeq -> RowChoices]

\* The stores of the whole-pipeline specification: "e2" is not stored yet,
\* "e1" is absent or stored with an embedding for this or the other model.
PipelineStores ==
    {c \in StoreChoices : /\ c[2] = <<"absent">>
                          /\ c[1] \in {<<"absent">>, <<"row", Some(1), "this">>,
                                       <<"row", Some(1), "other">>}}
PipelineStrategies == {"MTimeAndContent", "MTime"}

\* ------------------------------------------------------------ reconciler

\* The SELECT of match_to_existing_items for one external id: the row of the
\* source with that external_id, LEFT JOINed with its embedding for the
\* model identity. Some(FoundItem) or None.
QueryRow(rows, embs, sid, ext, strat) ==
    LET hit == {i \in 1..Len(rows) : rows[i].source_id = sid /\ rows[i].external_id = ext}
    IN  IF hit = {} THEN None
        ELSE LET r == rows[CHOOSE i \in hit : TRUE]
             IN  Some([id |-> r.id, hash |-> r.hash, modified |-> r.modified,
                       last_accessed |-> r.last_accessed, skipped |-> r.skipped,
                       content |-> IF should_compare_content(strat) THEN r.content ELSE "",
                       has_embedding |->
                           \E e \in embs : /\ e.item_id = r.id
                                            /\ e.model_id = ModelKey.model_id
                                            /\ e.model_version = ModelKey.model_version])

\* The `found` HashMap of a batch: only the external ids of the batch are asked for.
QueryBatch(rows, embs, sid, b, strat) ==
    [e \in ExtIds |->
        IF \E i \in DOMAIN b : b[i].external_id = e
        THEN QueryRow(rows, embs, sid, e, strat) ELSE None]

\* same_time: item.mtime zipped with found.modified, compared, and filtered
\* by compare_mtime. Option<bool>.
same_time(mtime, modified, compare_mtime) ==
    IF mtime # None /\ modified # None /\ compare_mtime
    THEN Some(mtime[1] = modified[1]) ELSE None

\* A reconciler that forces a rewrite only under the Force strategy.
MatchForce_StrategyOnly(strat, found) == strat = "Force"

\* The (force, same_time, mtime_is_sufficient) match of a found row.
MatchForce(strat, found) == strat = "Force" \/ ~found.has_embedding

MatchState(strat, item, found) ==
    LET force == MatchForce(strat, found)
        st == same_time(item.mtime, found.modified, should_compare_mtime(strat))
        mtime_is_sufficient == strat = "MTime"
    IN  IF force THEN "Changed"
        ELSE IF st = Some(FALSE) THEN "Changed"
        ELSE IF st = Some(TRUE) /\ mtime_is_sufficient THEN "Unchanged"
        ELSE IF st = Some(TRUE) THEN "Found"
        ELSE "Found"

\* found.remove(&item.external_id).map(...).unwrap_or(New), as a ScanItem.
\* The row id travels with the item.
Reconcile(strat, item, found) ==
    IF found = None
    THEN [state |-> "New", existing |-> None, item |-> item]
    ELSE [state |-> MatchState(strat, item, found[1]), existing |-> found,
          item |-> [item EXCEPT !.id = found[1].id]]

\* ---------------------------------------------------------------- reader

\* What scanner.read can do to an item: the result, and for Found the fields
\* it filled in: some text, no content with a skip reason, or (a page with
\* no title and no article) an empty name and whitespace for content.
ReadOutcomes ==
    {[res |-> "Found", content |-> c, name |-> None, skipped |-> None] : c \in {Some(""), Some("a"), Some("b")}}
    \cup {[res |-> "Found", content |-> None, name |-> Some("t"), skipped |-> Some("NotFound")]}
    \cup {[res |-> "Found", content |-> Some(" "), name |-> Some(""), skipped |-> None]}
    \cup {[res |-> r, content |-> None, name |-> None, skipped |-> None] : r \in {"Unchanged", "Omit", "Err"}}

ApplyRead(item, out) ==
    IF out.res = "Found"
    THEN [item EXCEPT !.content = out.content, !.skipped = out.skipped,
                      !.name = IF out.name = None THEN item.name ELSE out.name]
    ELSE item

\* A reader that keeps an item the scanner asked to omit.
StateAfterRead_KeepsOmitted(si, out) ==
    IF out.res \in {"Found", "Omit"} THEN Some(si.state)
    ELSE IF out.res = "Unchanged"
         THEN (IF si.existing # None THEN Some("Unchanged") ELSE None)
    ELSE None

\* The state after scanner.read returned: Some(state), or None when the item
\* is dropped (continue).
StateAfterRead(si, out) ==
    IF out.res = "Found" THEN Some(si.state)
    ELSE IF out.res = "Unchanged"
         THEN (IF si.existing # None THEN Some("Unchanged") ELSE None)
    ELSE None

\* A comparison that leaves a Found item as it is when the content is not
\* compared.
CompareContent_FoundKept(strat, state, existing, item) ==
    LET compare_content == item.skipped = None /\ should_compare_content(strat)
    IN  IF state # "Found" \/ ~compare_content THEN state
        ELSE IF existing[1].content # unwrap_or_default(item.content)
             THEN "Changed"
             ELSE "Unchanged"

\* The content comparison that settles a Found item.
CompareContent(strat, state, existing, item) ==
    LET compare_content == item.skipped = None /\ should_compare_content(strat)
    IN  IF state # "Found" THEN state
        ELSE IF compare_content /\ existing[1].content # unwrap_or_default(item.content)
             THEN "Changed"
             ELSE "Unchanged"

\* A reader that sends nothing for any item whose read returned Unchanged.
ReadItem_UnchangedDropped(strat, si, out) ==
    LET item == ApplyRead(si.item, out)
    IN  IF out.res # "Found" THEN None
        ELSE Some([state |-> CompareContent(strat, si.state, si.existing, item),
                   existing |-> si.existing, item |-> item])

\* One iteration of read_items for a ScanItem that is not Unchanged:
\* Some(ScanItem to send) or None.
ReadItem(strat, si, out) ==
    LET item == ApplyRead(si.item, out)
        st == StateAfterRead(si, out)
    IN  IF st = None THEN None
        ELSE Some([state |-> CompareContent(strat, st[1], si.existing, item),
                   existing |-> si.existing, item |-> item])

\* -------------------------------------------------------------- embedder

\* A document is modelled as the sequence of its "\n"-joined parts; the
\* empty string is the empty sequence.
\* [..].into_iter().flatten().filter(|s| !s.trim().is_empty()).join("\n")
JoinNonBlank(parts) ==
    LET kept == SelectSeq(parts, LAMBDA o : o # None /\ trim(o[1]) # "")
    IN  [i \in DOMAIN kept |-> kept[i][1]]

\* A composer that has no document for an item without name and description.
Document_NamedOnly(item) ==
    IF item.name = None /\ item.description = None THEN None
    ELSE LET document == JoinNonBlank(<<item.name, item.description, item.content>>)
         IN  IF document = <<>> THEN None ELSE Some(document)

\* The document of an item: Option<String>.
Document(item) ==
    IF item.name = None /\ item.description = None
    THEN (IF item.content = None THEN None
          ELSE Some(IF trim(item.content[1]) = "" THEN <<>> ELSE <<trim(item.content[1])>>))
    ELSE LET document == JoinNonBlank(<<item.name, item.description, item.content>>)
         IN  IF document = <<>> THEN None ELSE Some(document)

\* An embedder that looks at the state only.
SkipsEmbedding_StateOnly(si) == si.state \in {"Unchanged", "Found"}

\* Whether the embedder forwards the item at once with no embedding.
SkipsEmbedding(si) == si.state \in {"Unchanged", "Found"} \/ si.item.skipped # None

\* model.encode: one vector per document, the vector of a document being a
\* function of the document.
Encode(docs) == [i \in DOMAIN docs |-> <<"vec", docs[i]>>]

\* A pairing that hands the vectors out from the last to the first.
ZipEmbeddings_Reversed(b, embeddings) ==
    [i \in 1..(IF Len(b) < Len(embeddings) THEN Len(b) ELSE Len(embeddings)) |->
        [si |-> b[i], embedding |-> Some(embeddings[Len(embeddings) + 1 - i])]]

\* batch.drain(..).zip(embeddings.map(Some))
ZipEmbeddings(b, embeddings) ==
    [i \in 1..(IF Len(b) < Len(embeddings) THEN Len(b) ELSE Len(embeddings)) |->
        [si |-> b[i], embedding |-> Some(embeddings[i])]]

\* ---------------------------------------------------------------- writer

\* An Unchanged write that rewrites the content columns as well.
unchanged_stmt_rewrites(rows, version, item) ==
    [i \in DOMAIN rows |->
        IF rows[i].id = item.id
        THEN [rows[i] EXCEPT !.version = version, !.last_accessed = item.atime,
                             !.content = unwrap_or_default(item.content),
                             !.hash = unwrap_or_default(item.hash)]
        ELSE rows[i]]

\* UPDATE items SET version = ?, last_accessed = ? WHERE id = ?
unchanged_stmt(rows, version, item) ==
    [i \in DOMAIN rows |->
        IF rows[i].id = item.id
        THEN [rows[i] EXCEPT !.version = version, !.last_accessed = item.atime]
        ELSE rows[i]]

\* UPDATE items SET version, hash, content, process_version, name,
\* description, modified, last_accessed, skipped WHERE id = :id
changed_stmt(rows, version, item) ==
    [i \in DOMAIN rows |->
        IF rows[i].id = item.id
        THEN [rows[i] EXCEPT !.version = version,
                             !.hash = unwrap_or_default(item.hash),
                             !.content = unwrap_or_default(item.content),
                             !.process_version = item.process_version,
                             !.name = item.name, !.description = item.description,
                             !.modified = item.mtime, !.last_accessed = item.atime,
                             !.skipped = item.skipped]
        ELSE rows[i]]

\* The unique index on (source_id, external_id) refuses the INSERT.
InsertConflicts(rows, item) ==
    \E i \in DOMAIN rows : /\ rows[i].source_id = item.source_id
                           /\ rows[i].external_id = item.external_id

\* INSERT INTO items (...); the new row's id is last_insert_rowid().
new_stmt(rows, version, item) ==
    Append(rows, [id |-> Len(rows) + 1, source_id |-> item.source_id,
                  external_id |-> item.external_id, version |-> version,
                  hash |-> unwrap_or_default(item.hash),
                  content |-> unwrap_or_default(item.content),
                  process_version |-> item.process_version,
                  name |-> item.name, description |-> item.description,
                  modified |-> item.mtime, last_accessed |-> item.atime,
                  skipped |-> item.skipped, hidden_at |-> None])

\* An embedding INSERT with no ON CONFLICT clause replacing the old row.
embedding_stmt_insert_only(embs, id, version, embedding) ==
    embs \cup {EmbeddingRow(id, version, embedding, ModelKey)}

\* INSERT INTO item_embeddings ... ON CONFLICT (item_id, model_id,
\* model_version) DO UPDATE SET item_index_version, embedding
embedding_stmt(embs, id, version, embedding) ==
    {e \in embs : ~(/\ e.item_id = id
                    /\ e.model_id = ModelKey.model_id
                    /\ e.model_version = ModelKey.model_version)}
    \cup {EmbeddingRow(id, version, embedding, ModelKey)}

\* The statements of one element of a batch, applied to the transaction's
\* view t = [rows, embs, new, changed, unchanged, log, failed]. fail_stmt
\* names the statement of this element that the store refuses for a reason
\* of its own ("none", "item" or "embedding").
WriteOne(t, version, e, fail_stmt) ==
    LET si == e.si
        conflict == si.state = "New" /\ InsertConflicts(t.rows, si.item)
        rows2 == IF si.state = "Unchanged" THEN unchanged_stmt(t.rows, version, si.item)
                 ELSE IF si.state \in {"Found", "Changed"} THEN changed_stmt(t.rows, version, si.item)
                 ELSE new_stmt(t.rows, version, si.item)
        item_id == IF si.state = "New" THEN Len(rows2) ELSE si.item.id
        t2 == [t EXCEPT
                !.rows = rows2,
                !.new = t.new + (IF si.state = "New" THEN 1 ELSE 0),
                !.changed = t.changed + (IF si.state \in {"Found", "Changed"} THEN 1 ELSE 0),
                !.unchanged = t.unchanged + (IF si.state = "Unchanged" THEN 1 ELSE 0)]
    IN  IF conflict \/ fail_stmt = "item" THEN [t EXCEPT !.failed = TRUE]
        ELSE IF e.embedding = None
             THEN [t2 EXCEPT !.log = Append(t.log, [id |-> item_id, state |-> si.state,
                                                    item |-> si.item, embedding |-> None])]
        ELSE IF fail_stmt = "embedding" THEN [t2 EXCEPT !.failed = TRUE]
        ELSE [t2 EXCEPT
                !.embs = embedding_stmt(t.embs, item_id, version, e.embedding[1]),
                !.log = Append(t.log, [id |-> item_id, state |-> si.state,
                                       item |-> si.item, embedding |-> e.embedding])]

\* Where a transaction may fail for a reason of the store's own: nowhere
\* (k = 0), at a statement of element k, or at the commit (k = Len(b) + 1).
FailPoints(b) ==
    {[k |-> 0, stmt |-> "none"], [k |-> Len(b) + 1, stmt |-> "commit"]}
    \cup {[k |-> k, stmt |-> st] : k \in DOMAIN b, st \in {"item", "embedding"}}

\* The loop over a batch inside the transaction, then the commit.
RECURSIVE RunBatch(_, _, _, _, _)
RunBatch(t, version, b, k, fail) ==
    IF t.failed THEN t
    ELSE IF k > Len(b) THEN [t EXCEPT !.failed = (fail.k = k)]
    ELSE RunBatch(WriteOne(t, version, b[k], IF fail.k = k THEN fail.stmt ELSE "none"),
                  version, b, k + 1, fail)

BeginTxn(rows, embs) ==
    [rows |-> rows, embs |-> embs, new |-> 0, changed |-> 0, unchanged |-> 0,
     log |-> <<>>, failed |-> FALSE]

\* A writer whose failed batch leaves what its statements did.
EndTxn_NoRollback(before, t) == t

\* What the store holds once the transaction is over: tx.commit() publishes
\* the transaction's view; dropping tx on an error rolls it back.
EndTxn(before, t) == IF t.failed THEN [before EXCEPT !.failed = TRUE] ELSE t

\* ------------------------------------------------------------- scan: Init

ZeroStats == [scanned |-> 0, fetched |-> 0, encoded |-> 0,
              added |-> 0, changed |-> 0, unchanged |-> 0]

\* The scan command and the pipeline before a scan, whatever the store holds.
InitPipeline(strategies, scans) ==
    /\ db_source = [status |-> "Ready", index_version |-> 0]
    /\ source = [id |-> 1, status |-> "Ready", index_version |-> 1]
    /\ cmd_pc = "idle"
    /\ scan_result = "none"
    /\ strategy \in strategies
    /\ to_scan \in scans
    /\ item_ch = <<>> /\ matched_ch = <<>> /\ content_ch = <<>> /\ emb_ch = <<>>
    /\ stage = [n \in StageNames |-> "idle"]
    /\ lookup_batch = <<>>
    /\ lookup_found = [e \in ExtIds |-> None]
    /\ reader_hold = [w \in Readers |-> None]
    /\ batch = <<>> /\ documents = <<>>
    /\ stats = ZeroStats
    /\ errored = FALSE /\ logged = {}
    /\ matched_log = {} /\ read_log = {} /\ written = <<>>
    /\ faults = {}
    /\ pre_items = items /\ pre_embeddings = item_embeddings
    /\ scan_versions = <<>>
    /\ model_at = "caller"
    /\ encode_callers = {}

InitWith(strategies, stores, scans) ==
    /\ \E choice \in stores :
          LET rows == BuildRows(choice, 1, <<>>)
          IN  /\ items = rows
              /\ item_embeddings = BuildEmbeddings(choice, rows)
    /\ InitPipeline(strategies, scans)

InitScan ==
    /\ InitWith(PipelineStrategies, PipelineStores, ScanLists(PipelineItems))
    /\ BSQuiet /\ SearchQuiet /\ CallQuiet /\ CvsQuiet /\ MwQuiet

\* No scan is asked for: an empty store and nothing to scan.
ScanQuiet ==
    InitWith({"MTime"}, {[i \in DOMAIN ExtSeq |-> <<"absent">>]}, {<<>>})

\* ------------------------------------------------- scan: the CLI command

\* cmd/source.rs scan_source, up to the call of the pipeline: bump the
\* in-memory index_version, set Indexing, update_source (which writes the
\* status but not index_version).
StartScan ==
    /\ cmd_pc = "idle"
    /\ source' = [source EXCEPT !.index_version = @ + 1, !.status = "Indexing"]
    /\ db_source' = [db_source EXCEPT !.status = "Indexing"]
    /\ cmd_pc' = "started"
    /\ scan_versions' = Append(scan_versions, source'.index_version)
    /\ model_at' = "scan_source"
    /\ UNCHANGED <<items, item_embeddings, scan_result, strategy,
                   item_ch, matched_ch, content_ch, emb_ch, to_scan, stage,
                   lookup_batch, lookup_found, reader_hold, batch, documents, stats,
                   errored, logged, matched_log, read_log, written, faults,
                   pre_items, pre_embeddings, encode_callers, notScanVars>>

\* pipeline/import.rs scan_source: create the scanner, or fail at once;
\* then spawn the stages.
CreateScanner ==
    /\ cmd_pc = "started"
    /\ \/ /\ scan_result' = "Err"
          /\ cmd_pc' = "returned"
          /\ model_at' = "caller"
          /\ UNCHANGED stage
       \/ /\ stage' = [n \in StageNames |-> "running"]
          /\ cmd_pc' = "pipeline"
          /\ model_at' = "embed_task"
          /\ UNCHANGED scan_result
    /\ UNCHANGED <<items, item_embeddings, db_source, source, strategy,
                   item_ch, matched_ch, content_ch, emb_ch, to_scan,
                   lookup_batch, lookup_found, reader_hold, batch, documents, stats,
                   errored, logged, matched_log, read_log, written, faults,
                   pre_items, pre_embeddings, scan_versions, encode_callers, notScanVars>>

Running(n) == stage[n] = "running"
Exited(n) == stage[n] \in {"ok", "err"}
\* A scan_source that keeps a sender of its own for the readers' channels.
AllReadersExited_SenderKept == FALSE

\* Every clone of matched_rx and with_content_tx has been dropped: repeat_n
\* hands the originals to the last reader, so none is left in scan_source.
AllReadersExited == \A w \in Readers : Exited(ReaderName(w))

\* ------------------------------------------------------- scan: the stages

\* scanner.scan sends its next batch through the CountingVecSender: the
\* counter is bumped, then the send fails if the reconciler is gone.
ScannerSend ==
    /\ Running(Scanner)
    /\ to_scan # <<>>
    /\ stats' = [stats EXCEPT !.scanned = @ + Len(Head(to_scan))]
    /\ IF Exited(Lookup)
       THEN /\ stage' = [stage EXCEPT ![Scanner] = "err"]
            /\ UNCHANGED <<item_ch, to_scan>>
       ELSE /\ item_ch' = Append(item_ch, Head(to_scan))
            /\ to_scan' = Tail(to_scan)
            /\ UNCHANGED stage
    /\ UNCHANGED <<items, item_embeddings, db_source, source, cmd_pc, scan_result,
                   strategy, matched_ch, content_ch, emb_ch,
                   lookup_batch, lookup_found, reader_hold, batch, documents,
                   errored, logged, matched_log, read_log, written, faults,
                   pre_items, pre_embeddings, scan_versions, model_at, encode_callers, notScanVars>>

\* scanner.scan returns: Ok once everything was sent, or an error of its
\* own at any point (an unreadable Bookmarks file, a bad glob).
ScannerExit ==
    /\ Running(Scanner)
    /\ \/ /\ to_scan = <<>>
          /\ stage' = [stage EXCEPT ![Scanner] = "ok"]
          /\ UNCHANGED faults
       \/ /\ stage' = [stage EXCEPT ![Scanner] = "err"]
          /\ faults' = faults \cup {"scanner"}
    /\ UNCHANGED <<items, item_embeddings, db_source, source, cmd_pc, scan_result,
                   strategy, item_ch, matched_ch, content_ch, emb_ch,
                   to_scan, lookup_batch, lookup_found, reader_hold, batch, documents,
                   stats, errored, logged, matched_log, read_log, written,
                   pre_items, pre_embeddings, scan_versions, model_at, encode_callers, notScanVars>>

\* match_to_existing_items takes the next batch and runs the SELECT, which
\* may fail.
LookupRecv ==
    /\ Running(Lookup)
    /\ lookup_batch = <<>>
    /\ item_ch # <<>>
    /\ item_ch' = Tail(item_ch)
    /\ \/ /\ lookup_batch' = Head(item_ch)
          /\ lookup_found' = QueryBatch(items, item_embeddings, source.id, Head(item_ch), strategy)
          /\ UNCHANGED <<stage, faults>>
       \/ /\ stage' = [stage EXCEPT ![Lookup] = "err"]
          /\ faults' = faults \cup {"db_read"}
          /\ UNCHANGED <<lookup_batch, lookup_found>>
    /\ UNCHANGED <<items, item_embeddings, db_source, source, cmd_pc, scan_result,
                   strategy, matched_ch, content_ch, emb_ch, to_scan,
                   reader_hold, batch, documents, stats, errored, logged,
                   matched_log, read_log, written, pre_items, pre_embeddings, scan_versions, model_at, encode_callers, notScanVars>>

\* match_to_existing_items classifies the next item of the batch and sends
\* it on; the send fails when every reader is gone.
LookupItem ==
    /\ Running(Lookup)
    /\ lookup_batch # <<>>
    /\ Len(matched_ch) < MatchedCapacity
    /\ LET item == Head(lookup_batch)
           found == lookup_found[item.external_id]
           si == Reconcile(strategy, item, found)
       IN  /\ lookup_found' = [lookup_found EXCEPT ![item.external_id] = None]
           /\ matched_log' = matched_log \cup {[strategy |-> strategy, item |-> item,
                                                    found |-> found, state |-> si.state]}
           /\ IF AllReadersExited
              THEN /\ stage' = [stage EXCEPT ![Lookup] = "err"]
                   /\ lookup_batch' = <<>>
                   /\ UNCHANGED matched_ch
              ELSE /\ matched_ch' = Append(matched_ch, si)
                   /\ lookup_batch' = Tail(lookup_batch)
                   /\ UNCHANGED stage
    /\ UNCHANGED <<items, item_embeddings, db_source, source, cmd_pc, scan_result,
                   strategy, item_ch, content_ch, emb_ch, to_scan,
                   reader_hold, batch, documents, stats, errored, logged,
                   read_log, written, faults, pre_items, pre_embeddings, scan_versions, model_at, encode_callers, notScanVars>>

\* The input channel is closed and drained: the reconciler returns Ok.
LookupExit ==
    /\ Running(Lookup)
    /\ lookup_batch = <<>> /\ item_ch = <<>> /\ Exited(Scanner)
    /\ stage' = [stage EXCEPT ![Lookup] = "ok"]
    /\ UNCHANGED <<items, item_embeddings, db_source, source, cmd_pc, scan_result,
                   strategy, item_ch, matched_ch, content_ch, emb_ch,
                   to_scan, lookup_batch, lookup_found, reader_hold, batch, documents,
                   stats, errored, logged, matched_log, read_log, written, faults,
                   pre_items, pre_embeddings, scan_versions, model_at, encode_callers, notScanVars>>

\* A reader that gives up at the first failed read.
on_read_error_return == "return"

\* Err(e) => { eprintln!(...); continue; }
on_read_error == "continue"

\* One iteration of read_items up to its send: an Unchanged item is passed
\* on as is; any other is read, and kept or dropped.
ReaderRecv(w) ==
    /\ Running(ReaderName(w))
    /\ reader_hold[w] = None
    /\ matched_ch # <<>>
    /\ matched_ch' = Tail(matched_ch)
    /\ LET si == Head(matched_ch)
       IN  IF si.state = "Unchanged"
           THEN /\ reader_hold' = [reader_hold EXCEPT ![w] = Some(si)]
                /\ UNCHANGED <<stats, read_log, stage>>
           ELSE \E out \in ReadOutcomes :
                /\ reader_hold' = [reader_hold EXCEPT ![w] = ReadItem(strategy, si, out)]
                /\ stage' = IF out.res = "Err" /\ on_read_error = "return"
                            THEN [stage EXCEPT ![ReaderName(w)] = "err"]
                            ELSE stage
                /\ stats' = [stats EXCEPT !.fetched = @ + 1]
                /\ read_log' = read_log \cup {[si |-> si, out |-> out,
                                                 sent |-> ReadItem(strategy, si, out)]}
    /\ UNCHANGED <<items, item_embeddings, db_source, source, cmd_pc, scan_result,
                   strategy, item_ch, content_ch, emb_ch, to_scan,
                   lookup_batch, lookup_found, batch, documents, errored, logged,
                   matched_log, written, faults, pre_items, pre_embeddings, scan_versions, model_at, encode_callers, notScanVars>>

\* tx.send(ScanItem { state, item })?: fails when the embedder is gone.
ReaderSend(w) ==
    /\ Running(ReaderName(w))
    /\ reader_hold[w] # None
    /\ reader_hold' = [reader_hold EXCEPT ![w] = None]
    /\ IF Exited(Embedder)
       THEN /\ stage' = [stage EXCEPT ![ReaderName(w)] = "err"]
            /\ UNCHANGED content_ch
       ELSE /\ Len(content_ch) < EMBEDDING_BATCH_SIZE
            /\ content_ch' = Append(content_ch, reader_hold[w][1])
            /\ UNCHANGED stage
    /\ UNCHANGED <<items, item_embeddings, db_source, source, cmd_pc, scan_result,
                   strategy, item_ch, matched_ch, emb_ch, to_scan,
                   lookup_batch, lookup_found, batch, documents, stats, errored, logged,
                   matched_log, read_log, written, faults, pre_items, pre_embeddings, scan_versions, model_at, encode_callers, notScanVars>>

ReaderExit(w) ==
    /\ Running(ReaderName(w))
    /\ reader_hold[w] = None /\ matched_ch = <<>> /\ Exited(Lookup)
    /\ stage' = [stage EXCEPT ![ReaderName(w)] = "ok"]
    /\ UNCHANGED <<items, item_embeddings, db_source, source, cmd_pc, scan_result,
                   strategy, item_ch, matched_ch, content_ch, emb_ch,
                   to_scan, lookup_batch, lookup_found, reader_hold, batch, documents,
                   stats, errored, logged, matched_log, read_log, written, faults,
                   pre_items, pre_embeddings, scan_versions, model_at, encode_callers, notScanVars>>

\* calculate_embeddings_batch: encode the documents and pair the vectors
\* with the buffered items. model.encode may fail.
EncodeResults(b, docs) ==
    {[ok |-> TRUE, output |-> ZipEmbeddings(b, Encode(docs))],
     [ok |-> FALSE, output |-> <<>>]}

\* Whether this iteration calls calculate_embeddings_batch, and with it
\* model.encode: the item has a document and fills the buffer.
Encodes(si, buffered) ==
    /\ ~SkipsEmbedding(si)
    /\ Document(si.item) # None
    /\ Len(buffered) + 1 >= EMBEDDING_BATCH_SIZE

\* An embed task that gives the model back only when the embedder succeeded.
embed_task_result_ok_only(result, at) ==
    IF result = "ok" THEN "embed_result"
    ELSE IF result = "err" THEN "dropped"
    ELSE at

\* The closure of embed_task: once calculate_embeddings has returned, the
\* model is part of the thread's result, Ok(model) or Err((model, e)).
embed_task_result(result, at) ==
    IF result \in {"ok", "err"} THEN "embed_result" ELSE at

\* One iteration of calculate_embeddings: forward the item with no
\* embedding, or buffer it and encode once the buffer holds a full batch.
EmbedItem ==
    /\ Running(Embedder)
    /\ content_ch # <<>>
    /\ Len(emb_ch) < EmbeddingsCapacity
    /\ content_ch' = Tail(content_ch)
    /\ LET si == Head(content_ch)
           document == Document(si.item)
       IN  IF SkipsEmbedding(si) \/ document = None
           THEN /\ IF Exited(Writer)
                   THEN /\ stage' = [stage EXCEPT ![Embedder] = "err"]
                        /\ UNCHANGED emb_ch
                   ELSE /\ emb_ch' = Append(emb_ch, <<[si |-> si, embedding |-> None]>>)
                        /\ UNCHANGED stage
                /\ UNCHANGED <<batch, documents, stats, faults>>
           ELSE IF Len(batch) + 1 < EMBEDDING_BATCH_SIZE
           THEN /\ documents' = Append(documents, document[1])
                /\ batch' = Append(batch, si)
                /\ UNCHANGED <<emb_ch, stage, stats, faults>>
           ELSE \E r \in EncodeResults(Append(batch, si), Append(documents, document[1])) :
                IF ~r.ok
                THEN /\ stage' = [stage EXCEPT ![Embedder] = "err"]
                     /\ faults' = faults \cup {"encode"}
                     /\ documents' = Append(documents, document[1])
                     /\ batch' = Append(batch, si)
                     /\ UNCHANGED <<emb_ch, stats>>
                ELSE /\ stats' = [stats EXCEPT !.encoded = @ + Len(r.output)]
                     /\ batch' = <<>>
                     /\ documents' = <<>>
                     /\ UNCHANGED faults
                     /\ IF Exited(Writer)
                        THEN /\ stage' = [stage EXCEPT ![Embedder] = "err"]
                             /\ UNCHANGED emb_ch
                        ELSE /\ emb_ch' = Append(emb_ch, r.output)
                             /\ UNCHANGED stage
    /\ encode_callers' = IF Encodes(Head(content_ch), batch)
                         THEN encode_callers \cup {Embedder} ELSE encode_callers
    /\ model_at' = embed_task_result(stage'[Embedder], model_at)
    /\ UNCHANGED <<items, item_embeddings, db_source, source, cmd_pc, scan_result,
                   strategy, item_ch, matched_ch, to_scan,
                   lookup_batch, lookup_found, reader_hold, errored, logged,
                   matched_log, read_log, written, pre_items, pre_embeddings, scan_versions,
                   notScanVars>>

\* The input is closed and drained: encode what is left in the buffer, send
\* it, and return.
EmbedExit ==
    /\ Running(Embedder)
    /\ content_ch = <<>> /\ AllReadersExited
    /\ Len(emb_ch) < EmbeddingsCapacity
    /\ IF batch = <<>>
       THEN /\ stage' = [stage EXCEPT ![Embedder] = "ok"]
            /\ UNCHANGED <<batch, emb_ch, stats, faults>>
       ELSE \E r \in EncodeResults(batch, documents) :
            IF ~r.ok
            THEN /\ stage' = [stage EXCEPT ![Embedder] = "err"]
                 /\ faults' = faults \cup {"encode"}
                 /\ UNCHANGED <<batch, emb_ch, stats>>
            ELSE /\ stats' = [stats EXCEPT !.encoded = @ + Len(r.output)]
                 /\ batch' = <<>>
                 /\ UNCHANGED faults
                 /\ IF Exited(Writer)
                    THEN /\ stage' = [stage EXCEPT ![Embedder] = "err"]
                         /\ UNCHANGED emb_ch
                    ELSE /\ emb_ch' = Append(emb_ch, r.output)
                         /\ stage' = [stage EXCEPT ![Embedder] = "ok"]
    /\ encode_callers' = IF batch # <<>> THEN encode_callers \cup {Embedder} ELSE encode_callers
    /\ model_at' = embed_task_result(stage'[Embedder], model_at)
    /\ UNCHANGED <<items, item_embeddings, db_source, source, cmd_pc, scan_result,
                   strategy, item_ch, matched_ch, content_ch, to_scan,
                   lookup_batch, lookup_found, reader_hold, documents, errored, logged,
                   matched_log, read_log, written, pre_items, pre_embeddings, scan_versions,
                   notScanVars>>

\* The transaction of one batch, from the store as it is.
BatchTxn(b, fail) ==
    LET before == BeginTxn(items, item_embeddings)
    IN  EndTxn(before, RunBatch(before, source.index_version, b, 1, fail))

\* One iteration of update_db: one batch, one transaction; the counters
\* are added after the commit.
WriterBatch ==
    /\ Running(Writer)
    /\ emb_ch # <<>>
    /\ emb_ch' = Tail(emb_ch)
    /\ \E fail \in FailPoints(Head(emb_ch)) :
          LET t == BatchTxn(Head(emb_ch), fail)
          IN  /\ items' = t.rows
              /\ item_embeddings' = t.embs
              /\ IF t.failed
                 THEN /\ stage' = [stage EXCEPT ![Writer] = "err"]
                      /\ faults' = faults \cup {IF fail.k = 0 THEN "conflict" ELSE "db_write"}
                      /\ UNCHANGED <<stats, written>>
                 ELSE /\ stats' = [stats EXCEPT !.added = @ + t.new,
                                                 !.changed = @ + t.changed,
                                                 !.unchanged = @ + t.unchanged]
                      /\ written' = written \o t.log
                      /\ UNCHANGED <<stage, faults>>
    /\ UNCHANGED <<db_source, source, cmd_pc, scan_result, strategy,
                   item_ch, matched_ch, content_ch, to_scan, lookup_batch, lookup_found,
                   reader_hold, batch, documents, errored, logged, matched_log,
                   read_log, pre_items, pre_embeddings, scan_versions, model_at, encode_callers, notScanVars>>

WriterExit ==
    /\ Running(Writer)
    /\ emb_ch = <<>> /\ Exited(Embedder)
    /\ stage' = [stage EXCEPT ![Writer] = "ok"]
    /\ UNCHANGED <<items, item_embeddings, db_source, source, cmd_pc, scan_result,
                   strategy, item_ch, matched_ch, content_ch, emb_ch,
                   to_scan, lookup_batch, lookup_found, reader_hold, batch, documents,
                   stats, errored, logged, matched_log, read_log, written, faults,
                   pre_items, pre_embeddings, scan_versions, model_at, encode_callers, notScanVars>>

\* ------------------------------------------------------- scan: the join

\* The order in which scan_source joins the stage threads.
JoinOrder ==
    <<Writer, Embedder>> \o [w \in Readers |-> ReaderName(w)] \o <<Lookup, Scanner>>

\* errored = errored || log_thread_error(name, join): the stage is looked at
\* (and its failure logged) only while errored is still false. The embedder's
\* result is matched directly and always looked at.
RECURSIVE JoinFold(_, _)
JoinFold(k, acc) ==
    IF k > Len(JoinOrder) THEN acc
    ELSE LET n == JoinOrder[k]
             looked == n = Embedder \/ ~acc.errored
             failed == stage[n] = "err"
         IN  JoinFold(k + 1,
                      [errored |-> acc.errored \/ (looked /\ failed),
                       logged |-> IF looked /\ failed THEN acc.logged \cup {n} ELSE acc.logged])

\* Every stage thread has finished: scan_source computes errored, prints,
\* and returns Ok(returned_model).
Join ==
    /\ cmd_pc = "pipeline"
    /\ \A n \in StageNames : Exited(n)
    /\ LET j == JoinFold(1, [errored |-> FALSE, logged |-> {}])
       IN  /\ errored' = j.errored
           /\ logged' = j.logged
    /\ scan_result' = "Ok"
    /\ cmd_pc' = "returned"
    /\ model_at' = IF model_at = "embed_result" THEN "caller" ELSE model_at
    /\ UNCHANGED <<items, item_embeddings, db_source, source, strategy,
                   item_ch, matched_ch, content_ch, emb_ch, to_scan, stage,
                   lookup_batch, lookup_found, reader_hold, batch, documents, stats,
                   matched_log, read_log, written, faults, pre_items, pre_embeddings,
                   scan_versions, encode_callers, notScanVars>>

\* cmd/source.rs scan_source after the pipeline returned: `?` leaves on Err;
\* otherwise the status becomes Ready and update_source writes it.
FinishScan ==
    /\ cmd_pc = "returned"
    /\ IF scan_result = "Err"
       THEN /\ cmd_pc' = "aborted"
            /\ UNCHANGED <<source, db_source>>
       ELSE /\ source' = [source EXCEPT !.status = "Ready"]
            /\ db_source' = [db_source EXCEPT !.status = "Ready"]
            /\ cmd_pc' = "done"
    /\ UNCHANGED <<items, item_embeddings, scan_result, strategy,
                   item_ch, matched_ch, content_ch, emb_ch, to_scan, stage,
                   lookup_batch, lookup_found, reader_hold, batch, documents, stats,
                   errored, logged, matched_log, read_log, written, faults,
                   pre_items, pre_embeddings, scan_versions, model_at, encode_callers, notScanVars>>

NextScan ==
    \/ StartScan
    \/ CreateScanner
    \/ ScannerSend
    \/ ScannerExit
    \/ LookupRecv
    \/ LookupItem
    \/ LookupExit
    \/ \E w \in Readers : ReaderRecv(w)
    \/ \E w \in Readers : ReaderSend(w)
    \/ \E w \in Readers : ReaderExit(w)
    \/ EmbedItem
    \/ EmbedExit
    \/ WriterBatch
    \/ WriterExit
    \/ Join
    \/ FinishScan

Spec == InitScan /\ [][NextScan]_vars

\* ------------------------------------------------- pipeline: properties

\* scan_source of the pipeline has returned after running the stages.
PipelineReturned == cmd_pc \in {"returned", "done"} /\ scan_result = "Ok"
NoStageFailed == \A n \in StageNames : stage[n] # "err"
AllStagesOk == \A n \in StageNames : stage[n] = "ok"

\* The embedder composes a non-empty document for the item.
HasDocument(item) ==
    /\ item.skipped = None
    /\ Document(item) # None
    /\ Document(item)[1] # <<>>

\* The rows of item_embeddings for a row id and the model identity.
EmbeddingsOf(embs, id) ==
    {e \in embs : /\ e.item_id = id
                  /\ e.model_id = ModelKey.model_id
                  /\ e.model_version = ModelKey.model_version}

\* C3: after a scan in which no stage failed, every item written in state
\* New or Changed with a non-empty document has exactly one item_embeddings
\* row for (item_id, model_id, model_version), and that row carries the
\* index_version of the scan.
C3_OneEmbeddingPerWrittenItem ==
    (PipelineReturned /\ AllStagesOk) =>
        \A i \in DOMAIN written :
            (written[i].state \in {"New", "Changed"} /\ HasDocument(written[i].item)) =>
                /\ Cardinality(EmbeddingsOf(item_embeddings, written[i].id)) = 1
                /\ \A e \in EmbeddingsOf(item_embeddings, written[i].id) :
                       e.item_index_version = source.index_version

\* C3 witness: a scan with no failed stage has rewritten, as Changed and
\* with a non-empty document, an item that already had an embedding for the
\* model identity.
C3_Witness ==
    /\ PipelineReturned /\ AllStagesOk
    /\ \E i \in DOMAIN written :
          /\ written[i].state = "Changed"
          /\ HasDocument(written[i].item)
          /\ EmbeddingsOf(pre_embeddings, written[i].id) # {}

\* All embedding rows of a row id, whatever the model.
AllEmbeddingsOf(embs, id) == {e \in embs : e.item_id = id}

\* C4 as stated: for every item the writer processed as Unchanged, the
\* row's content, hash and process_version and its embedding rows are,
\* after the scan, what they were before the scan.
C4_UnchangedAsBeforeScan ==
    PipelineReturned =>
        \A i \in DOMAIN written :
            (written[i].state = "Unchanged" /\ written[i].id \in DOMAIN pre_items) =>
                /\ items[written[i].id].content = pre_items[written[i].id].content
                /\ items[written[i].id].hash = pre_items[written[i].id].hash
                /\ items[written[i].id].process_version = pre_items[written[i].id].process_version
                /\ AllEmbeddingsOf(item_embeddings, written[i].id)
                       = AllEmbeddingsOf(pre_embeddings, written[i].id)

\* C4, amended: the write of an item in state Unchanged leaves the row's
\* content, hash and process_version, every other column but version and
\* last_accessed, and the row's embedding rows as they were just before
\* that write; version becomes the scan's index_version and last_accessed
\* the item's access time.
C4_UnchangedWriteFrame ==
    [][\A k \in (Len(written) + 1)..Len(written') :
          written'[k].state = "Unchanged" =>
              /\ written'[k].id \in DOMAIN items
              /\ items'[written'[k].id] =
                    [items[written'[k].id] EXCEPT !.version = source.index_version,
                                                  !.last_accessed = written'[k].item.atime]
              /\ AllEmbeddingsOf(item_embeddings', written'[k].id)
                    = AllEmbeddingsOf(item_embeddings, written'[k].id)]_vars

\* C4 witness: an Unchanged item was written; its row carries the scan's
\* index_version and the item's access time, and its content is not the
\* content the never-read item carries.
C4_Witness ==
    \E i \in DOMAIN written :
        /\ written[i].state = "Unchanged"
        /\ items[written[i].id].version = source.index_version
        /\ items[written[i].id].last_accessed = written[i].item.atime
        /\ items[written[i].id].content # unwrap_or_default(written[i].item.content)

\* C7 as stated: once the stages have run and scan_source has returned, it
\* returned success if and only if no stage failed.
C7_SuccessIffNoStageFailed ==
    (cmd_pc \in {"returned", "done"} /\ \A n \in StageNames : Exited(n)) =>
        (scan_result = "Ok" <=> NoStageFailed)

\* C8 as stated: when the scan command has finished, the persisted status
\* is Ready if the stages ran and none failed, and Error otherwise; it is
\* not Indexing.
C8_FinalStatus ==
    cmd_pc \in {"done", "aborted"} =>
        db_source.status = (IF cmd_pc = "done" /\ AllStagesOk THEN "Ready" ELSE "Error")

\* C9: a batch is applied in one transaction. The step in which the writer
\* fails leaves items and item_embeddings exactly as they were (nothing of
\* the failed batch is visible, the batches committed before are intact)
\* and records nothing as written; and once the writer has failed it stays
\* failed and the store is not written again.
C9_FailedBatchRolledBack ==
    [][/\ (stage[Writer] = "running" /\ stage'[Writer] = "err") =>
              (items' = items /\ item_embeddings' = item_embeddings /\ written' = written)
       /\ stage[Writer] = "err" =>
              (stage'[Writer] = "err" /\ items' = items /\ item_embeddings' = item_embeddings)
       /\ (items' # items \/ item_embeddings' # item_embeddings) =>
              (stage'[Writer] = "running" /\ Len(written') > Len(written))]_vars

\* C9 witness: the writer failed on a store error after it had committed an
\* earlier batch, whose changes are in the store.
C9_Witness ==
    /\ stage[Writer] = "err"
    /\ "db_write" \in faults
    /\ written # <<>>
    /\ items # pre_items
    /\ \A i \in DOMAIN written : items[written[i].id].version = source.index_version

\* The reads that dropped the item numbered s, and the writes of it.
DroppedByReader(s) == \E r \in read_log : r.si.item.seq = s /\ r.sent = None
WritesOf(s) == {i \in DOMAIN written : written[i].item.seq = s}

\* C10: a failed read drops its item and nothing else. The reader sends
\* nothing for it and keeps running; and in a scan with no failure other
\* than failed reads, no stage fails and every item the scanner emitted is
\* either dropped by its read or written exactly once.
C10_ReadErrorDropsOnlyThatItem ==
    /\ \A r \in read_log : r.out.res = "Err" => r.sent = None
    /\ (PipelineReturned /\ faults = {}) =>
          /\ AllStagesOk
          /\ Cardinality({m.item.seq : m \in matched_log}) = stats.scanned
          /\ \A m \in matched_log :
                \/ DroppedByReader(m.item.seq) /\ WritesOf(m.item.seq) = {}
                \/ ~DroppedByReader(m.item.seq) /\ Cardinality(WritesOf(m.item.seq)) = 1

\* C10 witness: a scan of two items in which one read failed has returned;
\* no stage failed and the other item was written.
C10_Witness ==
    /\ PipelineReturned /\ AllStagesOk /\ faults = {}
    /\ stats.scanned = 2
    /\ \E r \in read_log : r.out.res = "Err"
    /\ Len(written) = 1

\* The rows of the scanned source that are not skipped.
ScannedSourceRows == {i \in DOMAIN items : items[i].source_id = source.id /\ items[i].skipped = None}

\* C11 as stated: after a scan in which no stage failed, every row of the
\* scanned source that is not skipped and whose content is not the empty
\* string has an embedding row for at least one model identity.
C11_NonEmptyContentHasEmbedding ==
    (PipelineReturned /\ AllStagesOk) =>
        \A i \in ScannedSourceRows :
            items[i].content # "" => AllEmbeddingsOf(item_embeddings, items[i].id) # {}

\* C11, amended: after a scan in which no stage failed, every row of the
\* scanned source that is not skipped and whose content holds more than
\* whitespace has an embedding row for at least one model identity.
C11_NonBlankContentHasEmbedding ==
    (PipelineReturned /\ AllStagesOk) =>
        \A i \in ScannedSourceRows :
            trim(items[i].content) # "" => AllEmbeddingsOf(item_embeddings, items[i].id) # {}

\* C11 witness: a scan with no failed stage has inserted a row with text
\* for content, which has its embedding, and a row with an empty name and
\* whitespace for content, which has none.
C11_Witness ==
    /\ PipelineReturned /\ AllStagesOk
    /\ \E i \in ScannedSourceRows :
          /\ i \notin DOMAIN pre_items
          /\ trim(items[i].content) # ""
          /\ EmbeddingsOf(item_embeddings, items[i].id) # {}
    /\ \E i \in ScannedSourceRows :
          /\ i \notin DOMAIN pre_items
          /\ items[i].content = " "
          /\ AllEmbeddingsOf(item_embeddings, items[i].id) = {}

\* The stored row of the scanned source with an item's external id, as it
\* was before the scan: a set of at most one row id.
PreRowOf(item) ==
    {i \in DOMAIN pre_items : /\ pre_items[i].source_id = item.source_id
                              /\ pre_items[i].external_id = item.external_id}

\* Nothing the scan met has changed since the rows were stored: every item
\* the scanner emitted has a row with the same modification time and an
\* embedding for the model identity, every read found the stored content
\* (or said Unchanged), and nothing outside the pipeline failed.
NothingChanged ==
    /\ faults \subseteq {"conflict"}
    /\ \A m \in matched_log :
          /\ PreRowOf(m.item) # {}
          /\ \A i \in PreRowOf(m.item) :
                /\ m.item.mtime # None /\ pre_items[i].modified = m.item.mtime
                /\ pre_items[i].skipped = None
                /\ EmbeddingsOf(pre_embeddings, i) # {}
    /\ \A r \in read_log :
          \/ r.out.res = "Unchanged"
          \/ /\ r.out.res = "Found" /\ r.out.skipped = None /\ r.out.content # None
             /\ \A i \in PreRowOf(r.si.item) : pre_items[i].content = r.out.content[1]

\* C12 as stated: a rescan, under MTimeAndContent or MTime, of a source none
\* of whose items changed counts added = 0, changed = 0 and unchanged = the
\* number of scanned items, modifies no content and no embedding row, and
\* leaves every scanned item's row at the new index_version.
C12_RescanOfUnchangedSource ==
    (PipelineReturned /\ NothingChanged /\ strategy \in {"MTimeAndContent", "MTime"}) =>
        /\ stats.added = 0 /\ stats.changed = 0 /\ stats.unchanged = stats.scanned
        /\ Len(items) = Len(pre_items)
        /\ \A i \in DOMAIN pre_items : items[i].content = pre_items[i].content
        /\ item_embeddings = pre_embeddings
        /\ \A m \in matched_log :
              \A i \in PreRowOf(m.item) : items[i].version = source.index_version

\* -------------------------------------------- reconciler: specification

\* The scanner and the reconciler alone, the later stages not yet
\* scheduled, over every strategy, every stored row and every scanned item:
\* one batch of up to MaxItems items.
MatchScans == {<<Numbered(q)>> : q \in SeqsUpTo(ScannedItems, MaxItems)}

InitMatch ==
    /\ InitWith(Strategies, StoreChoices, MatchScans)
    /\ BSQuiet /\ SearchQuiet /\ CallQuiet /\ CvsQuiet /\ MwQuiet

NextMatch ==
    \/ StartScan
    \/ CreateScanner
    \/ ScannerSend
    \/ ScannerExit
    \/ LookupRecv
    \/ LookupItem
    \/ LookupExit

SpecMatch == InitMatch /\ [][NextMatch]_vars

\* The decision table as the claim words it.
C2_Table(strat, has_embedding, mtime, modified) ==
    IF strat = "Force" \/ ~has_embedding THEN "Changed"
    ELSE IF strat \in {"MTime", "MTimeAndContent"} /\ mtime # None /\ modified # None
         THEN (IF mtime[1] # modified[1] THEN "Changed"
               ELSE IF strat = "MTime" THEN "Unchanged" ELSE "Found")
         ELSE "Found"

\* C2: every scanned item that the reconciler matches to a persisted row
\* gets the state of the decision table, for every strategy, with or
\* without an embedding for the model identity, and with equal, different
\* or missing modification times.
C2_DecisionTable ==
    \A m \in matched_log :
        m.found # None =>
            m.state = C2_Table(m.strategy, m.found[1].has_embedding,
                               m.item.mtime, m.found[1].modified)

\* C2 witness: under MTime, an item with the stored modification time and
\* an embedding was matched and classified Unchanged.
C2_Witness ==
    \E m \in matched_log :
        /\ m.found # None /\ m.found[1].has_embedding
        /\ m.strategy = "MTime"
        /\ m.item.mtime # None /\ m.item.mtime = m.found[1].modified
        /\ m.state = "Unchanged"

\* ------------------------------------------- BatchSender: specification

InitBatch == BSInit /\ ScanQuiet /\ SearchQuiet /\ CallQuiet /\ CvsQuiet /\ MwQuiet

SpecBatch == InitBatch /\ [][NextBatch]_vars

\* Where item x sits in the batches sent downstream.
SentPlaces(x) ==
    {bi \in (DOMAIN bs_sent) \X (1..(NumProducers * ItemsPerProducer)) :
        /\ bi[2] \in DOMAIN bs_sent[bi[1]]
        /\ bs_sent[bi[1]][bi[2]] = x}

AllGone == \A p \in Producers : bs_pc[p] = "gone"

\* C1: once every add has returned and the last handle has been dropped,
\* with the downstream channel still open, every item accepted by add is in
\* exactly one batch sent downstream, exactly once.
C1_AcceptedInExactlyOneBatch ==
    (AllGone /\ bs_rx_open) =>
        \A x \in bs_accepted : Cardinality(SentPlaces(x)) = 1

\* C1 witness: all producers are done, every item was accepted, and the
\* items went downstream in more than one batch.
C1_Witness ==
    /\ AllGone /\ bs_rx_open
    /\ bs_accepted = AllProducerItems
    /\ Len(bs_sent) >= 2

\* ---------------------------------------------------------------- search

\* The rows of the sources table, in the order the SELECT returns them.
SearchSources == <<1, 2>>

\* Query vectors; embeddings are vectors of the same length.
QueryVectors == {<<1>>, <<-1>>}

RECURSIVE Dot(_, _)
Dot(a, b) == IF a = <<>> \/ b = <<>> THEN 0 ELSE Head(a) * Head(b) + Dot(Tail(a), Tail(b))

\* impl instant_distance::Point for Point: 0.0 - self.0.dot(&other.0)
distance(a, b) == 0 - Dot(a, b)

\* The rows build_sources reads for one source: items JOIN item_embeddings
\* on the model identity WHERE skipped IS NULL AND hidden_at IS NULL.
PointsOf(rows, embs, sid) ==
    {[id |-> rows[i].id, point |-> e.embedding] :
        <<i, e>> \in {ie \in (DOMAIN rows) \X embs :
                        /\ rows[ie[1]].source_id = sid
                        /\ rows[ie[1]].skipped = None
                        /\ rows[ie[1]].hidden_at = None
                        /\ ie[2].item_id = rows[ie[1]].id
                        /\ ie[2].model_id = ModelKey.model_id
                        /\ ie[2].model_version = ModelKey.model_version}}

\* A build_sources that keeps the sources that have no points.
BuildSources_KeepsEmpty(rows, embs, srcs) ==
    [i \in DOMAIN srcs |-> [id |-> srcs[i], points |-> PointsOf(rows, embs, srcs[i])]]

\* build_sources: one SourceSearch per listed source that has points.
BuildSources(rows, embs, srcs) ==
    SelectSeq([i \in DOMAIN srcs |-> [id |-> srcs[i], points |-> PointsOf(rows, embs, srcs[i])]],
              LAMBDA ss : ss.points # {})

\* rebuild_source: nothing changes when the source has no points; else the
\* new structure replaces the source's old one, or is pushed at the end.
rebuild_source(sources, rows, embs, sid) ==
    LET built == BuildSources(rows, embs, <<sid>>)
        at == {i \in DOMAIN sources : sources[i].id = sid}
    IN  IF built = <<>> THEN sources
        ELSE IF at # {} THEN [sources EXCEPT ![CHOOSE i \in at : \A j \in at : i <= j] = built[1]]
        ELSE Append(sources, built[1])

\* Whether a sequence of (id, score) is in non-decreasing score order.
Ascending(q) == \A i \in DOMAIN q : \A j \in DOMAIN q : i < j => q[i].score <= q[j].score

\* The orders in which sorting by score can leave a sequence (an unstable
\* sort puts equal scores in any order).
Reorderings(q) ==
    {[i \in DOMAIN q |-> q[f[i]]] : f \in Permutations(DOMAIN q)}

\* A sort that leaves the sequence as it is.
sort_unstable_by_noop(q) == {q}

\* results.sort_unstable_by(|a, b| a.score.partial_cmp(&b.score).unwrap())
sort_unstable_by(q) == {r \in Reorderings(q) : Ascending(r)}

\* hnsw.search: the labelled points of the source with their distance to
\* the search point, nearest first; points at the same distance come in
\* any order. (The indexes of the model are small enough for the
\* approximate search to be exhaustive.)
HnswSearch(points, v) ==
    LET n == Cardinality(points)
        scored == {[id |-> pt.id, score |-> distance(pt.point, v)] : pt \in points}
    IN  {q \in [1..n -> scored] :
            /\ \A i \in 1..n : \A j \in 1..n : i # j => q[i] # q[j]
            /\ Ascending(q)}

take(q, k) == SubSeq(q, 1, IF Len(q) < k THEN Len(q) ELSE k)

\* A per-source search that lets hidden items through.
filter_hidden_none(hid, q) == q

\* .filter(|item| !self.hidden.contains(item.value))
filter_hidden(hid, q) == SelectSeq(q, LAMBDA e : e.id \notin hid)

RECURSIVE Flatten(_)
Flatten(qs) == IF qs = <<>> THEN <<>> ELSE Head(qs) \o Flatten(Tail(qs))

\* .filter(|source| sources.contains(&source.id))
RequestedSources(sources, srcs) == SelectSeq(sources, LAMBDA ss : ss.id \in srcs)

\* The store of the search specification: three items, two of source 1 and
\* one of source 2, each indexable, skipped, or embedded only for another
\* model; the second item at the distance of the first or farther.
SearchItemSource == <<1, 1, 2>>
SearchItemKinds == {"ok", "skipped", "other"}
SearchRow(i, kind) ==
    [OldRow(ExtSeq[1], Some(1)) EXCEPT
        !.id = i, !.source_id = SearchItemSource[i],
        !.external_id = <<"item", i>>,
        !.skipped = IF kind = "skipped" THEN Some("NotFound") ELSE None]

InitSearch ==
    /\ \E kinds \in [DOMAIN SearchItemSource -> SearchItemKinds] :
       \E second \in {<<1>>, <<2>>} :
          /\ items = [i \in DOMAIN SearchItemSource |-> SearchRow(i, kinds[i])]
          /\ item_embeddings =
                {EmbeddingRow(i, 1, IF i = 2 THEN second ELSE <<1>>,
                              IF kinds[i] = "other" THEN OtherModelKey ELSE ModelKey)
                   : i \in DOMAIN SearchItemSource}
    /\ InitPipeline({"MTime"}, {<<>>})
    /\ BSQuiet /\ CallQuiet /\ CvsQuiet /\ MwQuiet
    \* Searcher::build at startup
    /\ searcher_sources = BuildSources(items, item_embeddings, SearchSources)
    /\ searcher_hidden = {}
    /\ search_call = None
    /\ search_prev = None

\* search_vector_and_retrieve, after search_vector: the rows of the found
\* ids are read WHERE skipped is NULL AND hidden_at IS NULL, and sorted by
\* score again.
retrieve(rows, results) ==
    sort_unstable_by(SelectSeq(results, LAMBDA e :
        \E i \in DOMAIN rows : /\ rows[i].id = e.id
                               /\ rows[i].skipped = None
                               /\ rows[i].hidden_at = None))

\* search_vector_and_retrieve(database, sources, num_results, vector), with
\* search_vector inside it; the Searcher is used by one command at a time.
SearchVector ==
    /\ search_call = None
    /\ \E srcs \in SUBSET SourceIds : \E k \in 1..MaxK : \E v \in QueryVectors :
          LET requested == RequestedSources(searcher_sources, srcs)
          IN  \E found \in [DOMAIN requested -> UNION {HnswSearch(requested[i].points, v)
                                                        : i \in DOMAIN requested}] :
                 /\ \A i \in DOMAIN requested : found[i] \in HnswSearch(requested[i].points, v)
                 /\ LET lists == [i \in DOMAIN requested |->
                                     take(filter_hidden(searcher_hidden, found[i]), k)]
                    IN  \E sorted \in sort_unstable_by(Flatten(lists)) :
                        \E retrieved \in retrieve(items, take(sorted, k)) :
                           search_call' = Some([sources |-> srcs, k |-> k, vector |-> v,
                                                hidden |-> searcher_hidden,
                                                searched |-> [i \in DOMAIN requested |-> requested[i].id],
                                                lists |-> lists,
                                                results |-> take(sorted, k),
                                                retrieved |-> retrieved])
    /\ UNCHANGED <<searcher_sources, searcher_hidden, search_prev, notSearchVars>>

\* The caller has taken the result of the search.
SearchReturn ==
    /\ search_call # None
    /\ search_call' = None
    /\ UNCHANGED <<searcher_sources, searcher_hidden, search_prev, notSearchVars>>

\* The same, the history keeping what the search command printed.
SearchPrinted ==
    /\ search_call # None
    /\ search_call' = None
    /\ search_prev' = Some([sources |-> search_call[1].sources, k |-> search_call[1].k,
                            vector |-> search_call[1].vector,
                            ids |-> {search_call[1].retrieved[n].id
                                       : n \in DOMAIN search_call[1].retrieved}])
    /\ UNCHANGED <<searcher_sources, searcher_hidden, notSearchVars>>

\* An owner of the Searcher records an item in its public `hidden` set.
HiddenInsert ==
    /\ search_call = None
    /\ \E id \in DOMAIN items :
          /\ id \notin searcher_hidden
          /\ searcher_hidden' = searcher_hidden \cup {id}
    /\ UNCHANGED <<searcher_sources, search_call, search_prev, notSearchVars>>

\* handle_hide_command: database.set_item_hidden(id, true)
HideCommand ==
    /\ search_call = None
    /\ \E id \in DOMAIN items :
          /\ items[id].hidden_at = None
          /\ items' = [items EXCEPT ![id].hidden_at = Some(1)]
    /\ UNCHANGED <<item_embeddings, pipelineVars, searchVars, bsVars, callVars, cvsVars, mwVars>>

\* rebuild_search / the end of a scan: searcher.rebuild_source(source.id)
RebuildSource ==
    /\ search_call = None
    /\ \E sid \in SourceIds :
          searcher_sources' = rebuild_source(searcher_sources, items, item_embeddings, sid)
    /\ search_prev' = None
    /\ UNCHANGED <<searcher_hidden, search_call, notSearchVars>>

NextSearch ==
    \/ SearchVector
    \/ SearchReturn
    \/ HiddenInsert
    \/ HideCommand
    \/ RebuildSource

SpecSearch == InitSearch /\ [][NextSearch]_vars

\* The commands of the CLI on a built index: search, hide, rebuild.
NextHide ==
    \/ SearchVector
    \/ SearchPrinted
    \/ HideCommand
    \/ RebuildSource

SpecHide == InitSearch /\ [][NextHide]_vars

\* The entries of the per-source lists of a call, each with its place.
ListEntries(c) ==
    {<<i, j>> \in (DOMAIN c.lists) \X (1..MaxK) : j \in DOMAIN c.lists[i]}

\* C5: no id returned by search_vector is in the hidden set, and every
\* returned id is an item of a source of the requested list.
C5_ResultsVisibleAndRequested ==
    search_call # None =>
        \A n \in DOMAIN search_call[1].results :
            /\ search_call[1].results[n].id \notin search_call[1].hidden
            /\ \E i \in DOMAIN items :
                  /\ items[i].id = search_call[1].results[n].id
                  /\ items[i].source_id \in search_call[1].sources

\* C5 witness: a search of one source returned an item while an indexed
\* item of that source was in the hidden set and the other source was
\* indexed too.
C5_Witness ==
    /\ search_call # None
    /\ search_call[1].sources = {1}
    /\ search_call[1].results # <<>>
    /\ \E ss \in {searcher_sources[i] : i \in DOMAIN searcher_sources} :
          ss.id = 1 /\ \E pt \in ss.points : pt.id \in search_call[1].hidden
    /\ \E ss \in {searcher_sources[i] : i \in DOMAIN searcher_sources} : ss.id = 2

\* C6: search_vector returns at most k results in non-decreasing distance,
\* and they are the k smallest-distance entries of the concatenated
\* per-source lists: as many as k or as the lists hold, each taken from a
\* place of its own in the lists, and no entry left out is nearer than one
\* returned. Each per-source list is the first k non-hidden neighbours of a
\* requested source.
C6_KSmallestOfLists ==
    search_call # None =>
        LET c == search_call[1]
            total == Cardinality(ListEntries(c))
        IN  /\ Len(c.results) <= c.k
            /\ Ascending(c.results)
            /\ Len(c.results) = (IF total < c.k THEN total ELSE c.k)
            /\ \E place \in [DOMAIN c.results -> ListEntries(c)] :
                  /\ \A m \in DOMAIN c.results : \A n \in DOMAIN c.results :
                        m # n => place[m] # place[n]
                  /\ \A n \in DOMAIN c.results :
                        c.lists[place[n][1]][place[n][2]] = c.results[n]
                  /\ \A ij \in ListEntries(c) :
                        (\A n \in DOMAIN c.results : place[n] # ij) =>
                            \A n \in DOMAIN c.results :
                                c.results[n].score <= c.lists[ij[1]][ij[2]].score
            /\ \A i \in DOMAIN c.lists :
                  /\ c.searched[i] \in c.sources
                  /\ Len(c.lists[i]) <= c.k
                  /\ Ascending(c.lists[i])
                  /\ \A j \in DOMAIN c.lists[i] : c.lists[i][j].id \notin c.hidden

\* C6 witness: a search of both sources with k = 2 found a list of two
\* entries and a list of one, and returned two results: the entry of the
\* second list, and not the farther entry of the first.
C6_Witness ==
    /\ search_call # None
    /\ search_call[1].k = 2
    /\ Len(search_call[1].lists) = 2
    /\ Len(search_call[1].lists[1]) = 2
    /\ Len(search_call[1].lists[2]) = 1
    /\ search_call[1].lists[1][2].score > search_call[1].lists[2][1].score
    /\ Len(search_call[1].results) = 2
    /\ \E n \in DOMAIN search_call[1].results :
          search_call[1].results[n] = search_call[1].lists[2][1]

\* The items a search of the requested sources can still offer: indexed,
\* not hidden in the store and not in the hidden set.
StillOffered(srcs) ==
    {pt.id : pt \in UNION {searcher_sources[i].points
                             : i \in {j \in DOMAIN searcher_sources : searcher_sources[j].id \in srcs}}}
    \ ({i \in DOMAIN items : items[i].hidden_at # None} \cup searcher_hidden)

\* C13 as stated: when an item printed by a search has been hidden and no
\* index was rebuilt since, a search with the same arguments does not give
\* that item, and gives k results whenever at least k non-hidden items are
\* indexed in the requested sources.
C13_HiddenReplacedByNextBest ==
    (search_call # None /\ search_prev # None) =>
        LET c == search_call[1]
            p == search_prev[1]
            hiddenSince == {id \in p.ids : items[id].hidden_at # None}
        IN  (c.sources = p.sources /\ c.k = p.k /\ c.vector = p.vector /\ hiddenSince # {}) =>
                /\ \A n \in DOMAIN c.retrieved : c.retrieved[n].id \notin hiddenSince
                /\ Cardinality(StillOffered(c.sources)) >= c.k => Len(c.retrieved) = c.k

\* ------------------------------------------------ search: build, rebuild

\* Calls of rebuild_source in one run.
MaxRebuilds == 2

\* The store before the Searcher is built: the three items, each indexable,
\* skipped, hidden, or embedded only for another model.
IndexItemKinds == {"ok", "skipped", "hidden", "other"}

InitIndex ==
    /\ \E kinds \in [DOMAIN SearchItemSource -> IndexItemKinds] :
          /\ items = [i \in DOMAIN SearchItemSource |->
                        [SearchRow(i, kinds[i]) EXCEPT
                            !.hidden_at = IF kinds[i] = "hidden" THEN Some(1) ELSE None]]
          /\ item_embeddings =
                {EmbeddingRow(i, 1, <<1>>,
                              IF kinds[i] = "other" THEN OtherModelKey ELSE ModelKey)
                   : i \in DOMAIN SearchItemSource}
    /\ InitPipeline({"MTime"}, {<<>>})
    /\ BSQuiet /\ SearchQuiet /\ CallQuiet /\ CvsQuiet /\ MwQuiet

\* Searcher::build(database, model_id, model_version) at startup.
BuildCall ==
    /\ call_args = None
    /\ searcher_sources' = BuildSources(items, item_embeddings, SearchSources)
    /\ searcher_hidden' = {}
    /\ call_args' = Some([fn |-> "build", sid |-> 0, n |-> 0])
    /\ call_result' = Some("Ok")
    /\ UNCHANGED <<search_call, search_prev, scanVars, bsVars, cvsVars, mwVars>>

\* database.set_item_hidden(id, false)
UnhideCommand ==
    /\ \E id \in DOMAIN items :
          /\ items[id].hidden_at # None
          /\ items' = [items EXCEPT ![id].hidden_at = None]
    /\ UNCHANGED <<item_embeddings, pipelineVars, searchVars, bsVars, callVars, cvsVars, mwVars>>

\* searcher.rebuild_source(database, source_id, ..), the call noted.
RebuildSourceCall ==
    /\ call_args # None /\ call_args[1].n < MaxRebuilds
    /\ \E sid \in SourceIds :
          /\ searcher_sources' = rebuild_source(searcher_sources, items, item_embeddings, sid)
          /\ call_args' = Some([fn |-> "rebuild_source", sid |-> sid, n |-> call_args[1].n + 1])
    /\ UNCHANGED <<call_result, searcher_hidden, search_call, search_prev,
                   scanVars, bsVars, cvsVars, mwVars>>

NextIndex ==
    \/ BuildCall
    \/ HideCommand
    \/ UnhideCommand
    \/ RebuildSourceCall

SpecIndex == InitIndex /\ [][NextIndex]_vars

\* The items of a source that may be searched: not skipped, not hidden, with
\* an embedding for the model identity.
Eligible(sid) ==
    {items[i].id : i \in {j \in DOMAIN items :
        /\ items[j].source_id = sid
        /\ items[j].skipped = None
        /\ items[j].hidden_at = None
        /\ \E e \in item_embeddings :
              /\ e.item_id = items[j].id
              /\ e.model_id = ModelKey.model_id
              /\ e.model_version = ModelKey.model_version}}

\* The structures the Searcher holds for a source, and their labels.
StructuresOf(sid) == SelectSeq(searcher_sources, LAMBDA ss : ss.id = sid)
Labels(ss) == {pt.id : pt \in ss.points}

\* The Searcher holds for the source exactly its eligible items: one
\* structure labelled with them, or none when there is no such item.
HoldsEligible(sid) ==
    IF Eligible(sid) = {} THEN StructuresOf(sid) = <<>>
    ELSE /\ Len(StructuresOf(sid)) = 1
         /\ Labels(StructuresOf(sid)[1]) = Eligible(sid)

\* C35: when Searcher::build returns, each source's structure is labelled
\* with exactly the source's item ids that are not skipped, not hidden and
\* embedded for the model identity, no item is in the structure of another
\* source, and a source with no such item has no structure.
C35_BuildHoldsEligible ==
    [][(call_args = None /\ call_args' # None) =>
          /\ \A sid \in SourceIds : HoldsEligible(sid)'
          /\ \A i \in DOMAIN searcher_sources' :
                /\ searcher_sources'[i].id \in SourceIds
                /\ \A id \in Labels(searcher_sources'[i]) :
                      items[id].source_id = searcher_sources'[i].id]_vars

\* C35 witness: the Searcher was built from a store in which source 1 has an
\* eligible item and a hidden one and source 2 has only a skipped one: one
\* structure, that of source 1, with one label.
C35_Witness ==
    /\ call_args # None /\ call_args[1].fn = "build"
    /\ Len(searcher_sources) = 1
    /\ searcher_sources[1].id = 1
    /\ Cardinality(Labels(searcher_sources[1])) = 1
    /\ \E i \in DOMAIN items : items[i].source_id = 1 /\ items[i].hidden_at # None
    /\ \E i \in DOMAIN items : items[i].source_id = 2 /\ items[i].skipped # None

\* C36: when rebuild_source(s) returns, the Searcher holds for s exactly the
\* items of s eligible at that time, and no structure if there is none; the
\* structures of the other sources are as before; and there is at most one
\* structure per source id.
C36_RebuildHoldsEligible ==
    [][(call_args' # call_args /\ call_args' # None
            /\ call_args'[1].fn = "rebuild_source") =>
          \E sid \in SourceIds :
              /\ sid = call_args'[1].sid
              /\ HoldsEligible(sid)'
              /\ SelectSeq(searcher_sources', LAMBDA ss : ss.id # sid)
                    = SelectSeq(searcher_sources, LAMBDA ss : ss.id # sid)
              /\ \A s \in SourceIds : Len(StructuresOf(s)') <= 1]_vars

\* ------------------------------------------------- HTTP-backed scanners

\* SkipReason, and which reasons are permanent: a missing page or a refused
\* one stays so; a failed fetch may succeed next time.
SkipReasons == {"NotFound", "FetchError", "Unauthorized", "Redirected", "NoContent"}
permanent(reason) == reason # "FetchError"

HttpScanners == {"chromium_bookmarks", "chromium_history"}

\* What the server answers: the status for the item's own URL, the status
\* at the end of the redirect chain when that one is a redirect with a
\* Location, and the kind of body of a 2xx answer. Status 0 stands for no
\* answer at all (send returns Err).
StatusCodes == {200, 300, 301, 304, 401, 403, 404, 500}
WithLocation == {301}
Bodies == {"html", "text", "binary", "empty"}
Servers ==
    [own : StatusCodes \cup {0}, final : {200, 404, 0}, body : Bodies]

\* reqwest's Client as the scanners build it: user_agent, gzip and timeout
\* are set and the redirect policy is left at its default, which follows a
\* redirect that names a Location.
follows_redirects == TRUE

\* client.get(&item.external_id).send(): Err, or the response whose status
\* the caller sees.
Send(server) ==
    IF server.own \in WithLocation /\ follows_redirects THEN server.final ELSE server.own

is_redirection(status) == status \in 300..399
is_client_error(status) == status \in 400..499
is_server_error(status) == status \in 500..599

\* new_atime.zip(existing_atime).map(|(n, e)| n > e).unwrap_or(true)
newer_access(atime, existing) ==
    IF atime # None /\ existing # None /\ existing[1].last_accessed # None
    THEN atime[1] > existing[1].last_accessed[1]
    ELSE TRUE

\* The part of read before any request, in either scanner: Some(skipped of
\* the item) when it returns Unchanged at once, None when the fetch is next.
\* The history scanner does not ask whether the reason is permanent.
ReadShortCircuit(scanner, strat, existing, atime) ==
    IF strat = "Force" THEN None
    ELSE IF /\ existing # None /\ existing[1].skipped # None
            /\ (scanner = "chromium_history" \/ permanent(existing[1].skipped[1]))
         THEN Some(existing[1].skipped)
    ELSE IF ~newer_access(atime, existing) THEN Some(None)
    ELSE None

\* What the body of an answer that is neither skipped nor unchanged gives.
ReadBody(body, empty_is_skipped) ==
    IF body = "binary" THEN [res |-> "Found", skipped |-> None, content |-> Some("")]
    ELSE IF body = "empty" /\ empty_is_skipped
         THEN [res |-> "Found", skipped |-> Some("NoContent"), content |-> None]
    ELSE [res |-> "Found", skipped |-> None, content |-> Some(IF body = "empty" THEN "" ELSE "a")]

\* fetch_html from the send on: the status match, then the body.
fetch_html(server) ==
    LET status == Send(server)
        skip(reason) == [res |-> "Found", skipped |-> Some(reason), content |-> None]
    IN  IF status = 0 THEN skip("FetchError")
        ELSE IF status = 304 THEN [res |-> "Unchanged", skipped |-> None, content |-> None]
        ELSE IF status \in {403, 401} THEN skip("Unauthorized")
        ELSE IF status = 404 THEN skip("NotFound")
        ELSE IF is_redirection(status) THEN skip("Redirected")
        ELSE IF is_client_error(status) \/ is_server_error(status) THEN skip("FetchError")
        ELSE ReadBody(server.body, TRUE)

\* ChromiumHistoryScanner::read from the send on.
history_fetch(server) ==
    LET status == Send(server)
        skip(reason) == [res |-> "Found", skipped |-> Some(reason), content |-> None]
    IN  IF status = 0 THEN skip("FetchError")
        ELSE IF status = 404 THEN skip("NotFound")
        ELSE IF status \in {401, 403} THEN skip("Unauthorized")
        ELSE IF status >= 400 THEN skip("FetchError")
        ELSE IF status = 304 \/ server.body = "empty"
             THEN [res |-> "Unchanged", skipped |-> None, content |-> None]
        ELSE ReadBody(server.body, FALSE)

\* SourceScanner::read of an HTTP-backed scanner: whether a request was sent,
\* the answer to the item's own URL if so, and what read made of it.
HttpRead(a, server) ==
    LET short == ReadShortCircuit(a.scanner, a.strategy, a.existing, a.atime)
        fetched == IF a.scanner = "chromium_history" THEN history_fetch(server)
                   ELSE fetch_html(server)
    IN  IF short # None
        THEN [requested |-> FALSE, own |-> None, res |-> "Unchanged",
              skipped |-> short[1], content |-> None]
        ELSE [requested |-> TRUE, own |-> Some(server.own), res |-> fetched.res,
              skipped |-> fetched.skipped, content |-> fetched.content]

\* The rows a read may be given as `existing`, and the calls of read.
ExistingRows ==
    {None} \cup {Some([skipped |-> sk, last_accessed |-> la])
                   : sk \in {None} \cup {Some(r) : r \in SkipReasons},
                     la \in {None, Some(1), Some(2)}}

ReadCalls ==
    [fn : {"read"}, scanner : HttpScanners, strategy : Strategies,
     existing : ExistingRows, atime : {None, Some(1), Some(2)}]

InitRead ==
    /\ call_args \in {Some(a) : a \in ReadCalls}
    /\ call_result = None
    /\ ScanQuiet /\ BSQuiet /\ SearchQuiet /\ CvsQuiet /\ MwQuiet

\* scanner.read(existing, compare_strategy, &mut item) runs and returns.
ReadCall ==
    /\ call_args # None /\ call_args[1].fn = "read"
    /\ call_result = None
    /\ \E server \in Servers : call_result' = Some(HttpRead(call_args[1], server))
    /\ UNCHANGED <<call_args, scanVars, bsVars, searchVars, cvsVars, mwVars>>

SpecRead == InitRead /\ [][ReadCall]_vars

\* C14 as stated: read of an HTTP-backed item sends no request and returns
\* Unchanged exactly when the strategy is not Force and either the existing
\* row carries a permanent skipped reason or the scanned and the stored
\* access time are both present and the scanned one is not newer; and a
\* permanently skipped item, read without Force, is not fetched and goes on
\* as Unchanged, for which the embedder computes nothing.
C14_ShortCircuitExactlyWhen ==
    (call_result # None /\ call_args[1].fn = "read") =>
        LET a == call_args[1]
            r == call_result[1]
            permanently_skipped ==
                /\ a.existing # None /\ a.existing[1].skipped # None
                /\ permanent(a.existing[1].skipped[1])
            not_newer ==
                /\ a.atime # None /\ a.existing # None /\ a.existing[1].last_accessed # None
                /\ a.atime[1] <= a.existing[1].last_accessed[1]
            after == StateAfterRead([state |-> "Changed", existing |-> a.existing], r)
        IN  /\ (~r.requested /\ r.res = "Unchanged")
                <=> (a.strategy # "Force" /\ (permanently_skipped \/ not_newer))
            /\ (a.strategy # "Force" /\ permanently_skipped) =>
                  /\ ~r.requested
                  /\ after = Some("Unchanged")
                  /\ SkipsEmbedding([state |-> after[1], item |-> [skipped |-> r.skipped]])

\* C15 as stated: fetch_html maps the status of the answer to the item's
\* own URL, redirects not being followed: 304 gives Unchanged, 404 gives
\* skipped NotFound, 401 and 403 give Unauthorized, any other 3xx gives
\* Redirected, any other 4xx or 5xx gives FetchError.
C15_StatusMapping ==
    (/\ call_result # None /\ call_args[1].fn = "read"
     /\ call_args[1].scanner = "chromium_bookmarks"
     /\ call_result[1].requested /\ call_result[1].own # Some(0)) =>
        LET status == call_result[1].own[1]
            r == call_result[1]
            skipped_as(reason) == r.res = "Found" /\ r.skipped = Some(reason)
        IN  /\ status = 304 => r.res = "Unchanged"
            /\ status = 404 => skipped_as("NotFound")
            /\ status \in {401, 403} => skipped_as("Unauthorized")
            /\ (is_redirection(status) /\ status # 304) => skipped_as("Redirected")
            /\ ((is_client_error(status) \/ is_server_error(status))
                  /\ status \notin {401, 403, 404}) => skipped_as("FetchError")

\* ------------------------------------------- HTTP-backed scanners: request

\* A HeaderMap with room for the two conditional headers.
NoHeaders == [if_modified_since |-> None, if_none_match |-> None]

\* The req_headers map that read builds before the request: the scanned
\* item's mtime as If-Modified-Since; as If-None-Match the scanned item's
\* hash, for which fetch_html falls back on the hash of the existing row.
req_headers(scanner, item, existing) ==
    [if_modified_since |-> item.mtime,
     if_none_match |->
         IF item.hash # None THEN item.hash
         ELSE IF scanner = "chromium_bookmarks" /\ existing # None
              THEN Some(existing[1].hash)
         ELSE None]

\* client.get(url): a RequestBuilder for the URL with no header of the
\* caller's; headers are added only by calling .headers() or .header().
get(url) == [url |-> url, headers |-> NoHeaders]

\* The request that read sends: client.get(&item.external_id).send().
\* req_headers is built and never handed to the builder.
Request(scanner, item, existing) ==
    LET built == req_headers(scanner, item, existing)
    IN  [built |-> built, sent |-> get(item.external_id)]

\* The calls of read that get as far as the request: the scanned item and
\* the row stored for it, if any.
RequestCalls ==
    [fn : {"request"}, scanner : HttpScanners,
     item : [external_id : {"u"}, mtime : {None, Some(1), Some(2)},
             hash : {None, Some("h2")}],
     existing : {None} \cup {Some([hash |-> h, modified |-> m])
                                : h \in {"", "h"}, m \in {None, Some(1), Some(2)}}]

InitRequest ==
    /\ call_args \in {Some(a) : a \in RequestCalls}
    /\ call_result = None
    /\ ScanQuiet /\ BSQuiet /\ SearchQuiet /\ CvsQuiet /\ MwQuiet

\* read builds its headers and sends the request.
RequestCall ==
    /\ call_args # None /\ call_args[1].fn = "request"
    /\ call_result = None
    /\ call_result' = Some(Request(call_args[1].scanner, call_args[1].item,
                                   call_args[1].existing))
    /\ UNCHANGED <<call_args, scanVars, bsVars, searchVars, cvsVars, mwVars>>

SpecRequest == InitRequest /\ [][RequestCall]_vars

\* C34: the request read sends for an item with an existing row carries
\* If-None-Match with the stored hash whenever the row has a hash, and
\* If-Modified-Since with the stored modified time whenever the row has one.
C34_ConditionalHeadersSent ==
    (/\ call_result # None /\ call_args[1].fn = "request"
     /\ call_args[1].existing # None) =>
        LET stored == call_args[1].existing[1]
            headers == call_result[1].sent.headers
        IN  /\ stored.hash # "" => headers.if_none_match = Some(stored.hash)
            /\ stored.modified # None => headers.if_modified_since = stored.modified

\* ------------------------------------------------------ embedding codec

\* An f32 is modelled by its three bit fields: sign (1 bit), exponent
\* (8 bits) and fraction (23 bits); a byte by its value 0..255.
ByteValues == {0, 128, 255}
FloatValues ==
    {[sign |-> sg, exponent |-> ex, fraction |-> fr]
        : sg \in {0, 1}, ex \in {0, 127, 255}, fr \in {0, 4194304}}

\* An f32 written most significant byte first.
to_be_bytes(f) ==
    <<f.sign * 128 + f.exponent \div 2,
      (f.exponent % 2) * 128 + f.fraction \div 65536,
      (f.fraction \div 256) % 256,
      f.fraction % 256>>

\* f32::to_le_bytes: the four bytes of the bit pattern, least significant first.
to_le_bytes(f) ==
    <<f.fraction % 256,
      (f.fraction \div 256) % 256,
      (f.exponent % 2) * 128 + f.fraction \div 65536,
      f.sign * 128 + f.exponent \div 2>>

\* f32::from_le_bytes([chunk[0], chunk[1], chunk[2], chunk[3]])
from_le_bytes(chunk) ==
    [sign |-> chunk[4] \div 128,
     exponent |-> (chunk[4] % 128) * 2 + chunk[3] \div 128,
     fraction |-> (chunk[3] % 128) * 65536 + chunk[2] * 256 + chunk[1]]

\* value.chunks(4): consecutive chunks of n, the last one shorter when the
\* length is not a multiple of n.
chunks(value, n) ==
    [i \in 1..((Len(value) + n - 1) \div n) |->
        SubSeq(value, (i - 1) * n + 1, IF i * n < Len(value) THEN i * n ELSE Len(value))]

\* deserialize_embedding: Some(vector), or None when indexing a short last
\* chunk panics.
deserialize_embedding(value) ==
    LET cs == chunks(value, 4)
    IN  IF \E i \in DOMAIN cs : Len(cs[i]) < 4 THEN None
        ELSE Some([i \in DOMAIN cs |-> from_le_bytes(cs[i])])

\* serialize_embedding: bytes_vec.extend(value.to_le_bytes()) for each value.
serialize_embedding(embedding) ==
    Flatten([i \in DOMAIN embedding |-> to_le_bytes(embedding[i])])

RECURSIVE TuplesUpTo(_, _)
TuplesUpTo(S, n) ==
    IF n = 0 THEN {<<>>}
    ELSE LET shorter == TuplesUpTo(S, n - 1)
         IN  shorter \cup {Append(q, x) : q \in {t \in shorter : Len(t) = n - 1}, x \in S}

\* The calls of the codec: a buffer read and written back, or a vector
\* written and read back.
CodecCalls ==
    {[fn |-> "deserialize", value |-> b] : b \in TuplesUpTo(ByteValues, MaxBytes)}
    \cup {[fn |-> "serialize", value |-> v] : v \in TuplesUpTo(FloatValues, MaxFloats)}

InitCodec ==
    /\ call_args \in {Some(a) : a \in CodecCalls}
    /\ call_result = None
    /\ ScanQuiet /\ BSQuiet /\ SearchQuiet /\ CvsQuiet /\ MwQuiet

\* deserialize_embedding(row.get_ref(2)...) as build_sources calls it, the
\* vector then serialized again.
DeserializeCall ==
    /\ call_args # None /\ call_args[1].fn = "deserialize"
    /\ call_result = None
    /\ LET v == deserialize_embedding(call_args[1].value)
       IN  call_result' = Some([first |-> v,
                                back |-> IF v = None THEN None
                                         ELSE Some(serialize_embedding(v[1]))])
    /\ UNCHANGED <<call_args, scanVars, bsVars, searchVars, cvsVars, mwVars>>

\* serialize_embedding(embedding) as update_db calls it, the bytes then
\* deserialized again.
SerializeCall ==
    /\ call_args # None /\ call_args[1].fn = "serialize"
    /\ call_result = None
    /\ LET b == serialize_embedding(call_args[1].value)
       IN  call_result' = Some([first |-> Some(b), back |-> deserialize_embedding(b)])
    /\ UNCHANGED <<call_args, scanVars, bsVars, searchVars, cvsVars, mwVars>>

NextCodec == DeserializeCall \/ SerializeCall

SpecCodec == InitCodec /\ [][NextCodec]_vars

\* C16: serialize_embedding(deserialize_embedding(b)) is b for every byte
\* buffer whose length is a multiple of 4, and
\* deserialize_embedding(serialize_embedding(v)) is v, bit for bit, for
\* every vector of f32; the serialized vector holds 4 bytes per element.
C16_CodecRoundTrip ==
    call_result # None =>
        /\ (call_args[1].fn = "deserialize" /\ Len(call_args[1].value) % 4 = 0) =>
              /\ call_result[1].first # None
              /\ Len(call_result[1].first[1]) * 4 = Len(call_args[1].value)
              /\ call_result[1].back = Some(call_args[1].value)
        /\ call_args[1].fn = "serialize" =>
              /\ Len(call_result[1].first[1]) = 4 * Len(call_args[1].value)
              /\ call_result[1].back = Some(call_args[1].value)

\* C16 witness: a buffer of two chunks whose bytes differ inside a chunk has
\* been read as two values and written back.
C16_Witness ==
    /\ call_result # None
    /\ call_args[1].fn = "deserialize"
    /\ Len(call_args[1].value) = 8
    /\ call_args[1].value[1] # call_args[1].value[4]
    /\ call_args[1].value[5] # call_args[1].value[6]
    /\ call_result[1].first # None /\ Len(call_result[1].first[1]) = 2
    /\ call_result[1].back = Some(call_args[1].value)



\* C19: however scan_source finishes (the scanner could not be created, the
\* embedder succeeded, the embedder failed) the caller has the model again;
\* while the stages run the model is with the embed task and nowhere else,
\* and the embedder is the only thread that called model.encode.
C19_ModelHandedBack ==
    /\ cmd_pc \in {"returned", "done", "aborted"} => model_at = "caller"
    /\ cmd_pc = "pipeline" => model_at \in {"embed_task", "embed_result"}
    /\ encode_callers \subseteq {Embedder}

\* scan_source has returned after an embedder that called model.encode
\* failed.
C19_Witness ==
    /\ cmd_pc = "returned"
    /\ stage[Embedder] = "err"
    /\ encode_callers = {Embedder}
    /\ model_at = "caller"


\* A row of the scanned source with this external id.
HasRow(rows, ext) ==
    \E i \in DOMAIN rows : rows[i].source_id = source.id /\ rows[i].external_id = ext

\* C23: whatever the scanner emits, an external id twice in one scan
\* included, the reconciler classifies an item New only if the store holds
\* no row with its (source_id, external_id), and so the writer's INSERT
\* never meets an existing (source_id, external_id).
C23_NewOnlyWithoutRow ==
    /\ \A m \in matched_log : m.state = "New" => ~HasRow(pre_items, m.item.external_id)
    /\ "conflict" \notin faults


\* This step is a reader taking the next ScanItem from its input.
ReaderReceives == matched_ch # <<>> /\ matched_ch' = Tail(matched_ch)

\* Some reader now holds `sent` (Some(ScanItem) to forward, or None).
ReaderHolds(sent) ==
    \E w \in Readers : reader_hold' = [reader_hold EXCEPT ![w] = sent]

\* An Unchanged item is held to be forwarded as it is, and no read is made.
UnchangedPassedOn(si) ==
    /\ ReaderHolds(Some(si))
    /\ stats'.fetched = stats.fetched
    /\ read_log' = read_log

\* read is called once on any other item, and `states` says which states
\* the item may be forwarded in when read returns Found.
ReadOnceAndSettled(si, states(_)) ==
    /\ stats'.fetched = stats.fetched + 1
    /\ \E r \in read_log' :
          /\ r.si = si
          /\ ReaderHolds(r.sent)
          /\ IF r.out.res = "Found"
             THEN /\ r.sent # None
                  /\ r.sent[1].state \in states(si.state)
                  /\ r.sent[1].item.seq = si.item.seq
             ELSE IF r.out.res = "Unchanged" /\ si.existing # None
             THEN /\ r.sent # None
                  /\ r.sent[1].state = "Unchanged"
                  /\ r.sent[1].item = si.item
             ELSE r.sent = None

KeptState(state) == {state}
KeptOrSettledState(state) == IF state = "Found" THEN {"Changed", "Unchanged"} ELSE {state}

\* C24 as stated: an Unchanged item is forwarded as is without a read; any
\* other item is read once and forwarded with its state kept when read
\* returns Found, forwarded Unchanged when read returns Unchanged and the
\* item has a row, and dropped otherwise.
C24_ReaderTableAsStated ==
    [][ReaderReceives =>
          LET si == Head(matched_ch)
          IN  IF si.state = "Unchanged" THEN UnchangedPassedOn(si)
              ELSE ReadOnceAndSettled(si, KeptState)]_vars

\* C24: an Unchanged item is forwarded as is without a read; any other item
\* is read once and, when read returns Found, forwarded with its state kept
\* if that state is New or Changed and as Changed or Unchanged if it is
\* Found; forwarded Unchanged when read returns Unchanged and the item has a
\* row; and dropped when read returns Unchanged for a New item, returns
\* Omit, or fails.
C24_ReaderTable ==
    [][ReaderReceives =>
          LET si == Head(matched_ch)
          IN  IF si.state = "Unchanged" THEN UnchangedPassedOn(si)
              ELSE ReadOnceAndSettled(si, KeptOrSettledState)]_vars

\* In one scan a New item was dropped because read returned Unchanged, and
\* an item with a row was read and forwarded.
C24_Witness ==
    \E r1 \in read_log : \E r2 \in read_log :
        /\ r1.si.state = "New" /\ r1.out.res = "Unchanged" /\ r1.sent = None
        /\ r2.si.state \in {"Found", "Changed"} /\ r2.out.res = "Found" /\ r2.sent # None


\* The ScanItems that have left the reader: held for sending, in the channel
\* to the embedder, buffered there, in the channel to the writer, or written.
PastReader ==
    {reader_hold[w][1] : w \in {x \in Readers : reader_hold[x] # None}}
    \cup {content_ch[i] : i \in DOMAIN content_ch}
    \cup {batch[i] : i \in DOMAIN batch}
    \cup UNION {{emb_ch[i][k].si : k \in DOMAIN emb_ch[i]} : i \in DOMAIN emb_ch}
    \cup {[state |-> written[i].state, item |-> written[i].item] : i \in DOMAIN written}

\* state -> state steps that an item may take after the reconciler.
StateSteps ==
    {<<"Found", "Changed">>, <<"Found", "Unchanged">>, <<"Changed", "Unchanged">>}

\* C26: an item past the reader carries the state the reconciler gave it
\* or one reached from it by Found -> Changed, Found -> Unchanged or
\* Changed -> Unchanged (so New and Unchanged are never altered), and no
\* item past the reader, at the embedder or at the writer is in state Found.
C26_StateSteps ==
    \A d \in {[state |-> x.state, seq |-> x.item.seq] : x \in PastReader} :
        /\ d.state # "Found"
        /\ \E m \in matched_log :
              /\ m.item.seq = d.seq
              /\ (m.state = d.state \/ <<m.state, d.state>> \in StateSteps)
        /\ \A m \in matched_log :
              (m.item.seq = d.seq /\ m.state \in {"New", "Unchanged"}) => d.state = m.state

\* C26 witness: one scan has written an item the reconciler found Changed as
\* Unchanged, and the reader has settled an item the reconciler left Found.
C26_Witness ==
    /\ \E i \in DOMAIN written : \E m \in matched_log :
          /\ m.item.seq = written[i].item.seq
          /\ m.state = "Changed" /\ written[i].state = "Unchanged"
    /\ \E d \in PastReader : \E m \in matched_log :
          /\ m.item.seq = d.item.seq
          /\ m.state = "Found" /\ d.state \in {"Changed", "Unchanged"}

\* The item may be given to model.encode: New or Changed, and not skipped.
Embeddable(si) == si.state \in {"New", "Changed"} /\ si.item.skipped = None

\* The (ScanItem, embedding) pairs the embedder has sent on.
Forwarded ==
    UNION {{emb_ch[i][k] : k \in DOMAIN emb_ch[i]} : i \in DOMAIN emb_ch}
    \cup {[si |-> [state |-> written[i].state, item |-> written[i].item],
           embedding |-> written[i].embedding] : i \in DOMAIN written}

\* The step of the embedder that takes a ScanItem that is not embeddable:
\* nothing is buffered or encoded, and the item goes on with embedding None
\* (or the send fails because the writer is gone).
ForwardedAtOnce ==
    (content_ch # <<>> /\ content_ch' = Tail(content_ch)
        /\ ~Embeddable(Head(content_ch))) =>
            /\ batch' = batch /\ documents' = documents
            /\ stats'.encoded = stats.encoded
            /\ encode_callers' = encode_callers
            /\ \/ emb_ch' = Append(emb_ch, <<[si |-> Head(content_ch), embedding |-> None]>>)
               \/ emb_ch' = emb_ch /\ stage[Writer] # "run" /\ stage'[Embedder] = "err"

\* C28: only ScanItems that are New or Changed with no skipped reason are
\* buffered for model.encode or come out with a vector; any other item is
\* forwarded in the step that receives it, with embedding None; and every
\* item_embeddings row a scan adds holds the vector of a written item whose
\* skipped is absent.
C28_EncodeOnlyUnskipped ==
    /\ [](\A i \in DOMAIN batch : Embeddable(batch[i]))
    /\ [](\A f \in Forwarded : f.embedding # None => Embeddable(f.si))
    /\ [](\A e \in item_embeddings \ pre_embeddings :
             \E i \in DOMAIN written :
                 /\ written[i].id = e.item_id
                 /\ written[i].embedding = Some(e.embedding)
                 /\ written[i].item.skipped = None)
    /\ [][ForwardedAtOnce]_vars

\* C28 witness: a scan with no failed stage has written a New or Changed
\* item whose skipped is set, with no vector, and another item with one.
C28_Witness ==
    /\ PipelineReturned /\ AllStagesOk
    /\ \E i \in DOMAIN written :
          /\ written[i].state \in {"New", "Changed"}
          /\ written[i].item.skipped # None
          /\ written[i].embedding = None
    /\ \E i \in DOMAIN written : written[i].embedding # None

\* name, description and content are each absent or blank.
Blank(item) ==
    \A o \in {item.name, item.description, item.content} :
        o = None \/ trim(o[1]) = ""

\* C29: no document held for model.encode is empty, no item whose name,
\* description and content are all absent or blank is buffered for
\* model.encode, and such an item is forwarded with embedding None.
C29_NoEmptyDocument ==
    /\ \A i \in DOMAIN documents : documents[i] # <<>>
    /\ \A i \in DOMAIN batch : ~Blank(batch[i].item)
    /\ \A f \in Forwarded : Blank(f.si.item) => f.embedding = None

\* The item with the vector of its own document.
OwnVector(si) ==
    [si |-> si, embedding |-> Some(Encode(<<Document(si.item)[1]>>)[1])]

\* The items handed to model.encode by a step that encodes: the buffer and,
\* when the step received an item, that item as the last one.
EncodeInput ==
    IF content_ch' # content_ch THEN Append(batch, Head(content_ch)) ELSE batch

\* model.encode returned its vectors in this step.
EncodeReturned == stats'.encoded # stats.encoded

\* A step in which model.encode returned: the call took the whole buffer, 1
\* to EMBEDDING_BATCH_SIZE documents, because the buffer was full or the
\* input was closed and drained; the buffer is emptied and the items go on
\* as one output, each with the vector of its own document, in buffer order
\* (or the send fails because the writer is gone).
EncodeStep ==
    EncodeReturned =>
        /\ Len(EncodeInput) \in 1..EMBEDDING_BATCH_SIZE
        /\ \/ Len(EncodeInput) = EMBEDDING_BATCH_SIZE
           \/ content_ch = <<>> /\ AllReadersExited
        /\ stats'.encoded = stats.encoded + Len(EncodeInput)
        /\ batch' = <<>>
        /\ \/ emb_ch' = Append(emb_ch, [i \in DOMAIN EncodeInput |-> OwnVector(EncodeInput[i])])
           \/ emb_ch' = emb_ch /\ Exited(Writer) /\ stage'[Embedder] = "err"

\* The buffer changes only by taking the received item at its end or by
\* being handed to model.encode.
BufferStep ==
    batch' # batch =>
        \/ content_ch # <<>> /\ batch' = Append(batch, Head(content_ch))
        \/ EncodeReturned

\* How often the item numbered s is in what the embedder has sent on.
TimesForwarded(s) ==
    Cardinality({<<i, k>> \in (DOMAIN emb_ch) \X (1..EMBEDDING_BATCH_SIZE) :
                    k \in DOMAIN emb_ch[i] /\ emb_ch[i][k].si.item.seq = s})
    + Cardinality({i \in DOMAIN written : written[i].item.seq = s})

\* The buffers between two steps of the embedder: equally long, document i
\* that of item i, never full while the embedder runs and empty once it
\* has returned Ok; no buffered item has been forwarded and no item is
\* forwarded twice; and after a scan in which no stage failed every item
\* the reader sent on that has a document is written with its own vector.
BuffersInStep ==
    /\ Running(Embedder) =>
          /\ Len(batch) = Len(documents)
          /\ Len(batch) < EMBEDDING_BATCH_SIZE
          /\ \A i \in DOMAIN batch : Some(documents[i]) = Document(batch[i].item)
    /\ stage[Embedder] = "ok" => batch = <<>>
    /\ \A i \in DOMAIN batch : TimesForwarded(batch[i].item.seq) = 0
    /\ \A f \in Forwarded : TimesForwarded(f.si.item.seq) = 1
    /\ \A f \in Forwarded : f.embedding # None => f.embedding = OwnVector(f.si).embedding
    /\ (PipelineReturned /\ AllStagesOk) =>
          \A r \in read_log :
              (r.sent # None /\ Embeddable(r.sent[1]) /\ Document(r.sent[1].item) # None) =>
                  \E i \in DOMAIN written :
                      /\ written[i].item = r.sent[1].item
                      /\ written[i].embedding = OwnVector(r.sent[1]).embedding

\* C30: every buffered item is handed to model.encode in one call of 1 to
\* EMBEDDING_BATCH_SIZE documents, made when the buffer is full or the
\* input has closed, and is forwarded once with the vector of its own
\* document, the i-th vector with the i-th buffered item; the item buffer
\* and the document buffer are equally long between steps of the embedder.
C30_BatchEncodedOnce ==
    /\ []BuffersInStep
    /\ [][EncodeStep /\ BufferStep]_vars

\* C30 witness: in a scan with no failed stage the embedder has encoded a
\* full buffer of two items with different documents in one call, and both
\* are written, each with its own vector.
C30_Witness ==
    /\ PipelineReturned /\ AllStagesOk
    /\ stats.encoded = EMBEDDING_BATCH_SIZE
    /\ \E i \in DOMAIN written : \E k \in DOMAIN written :
          /\ i < k
          /\ written[i].embedding # None /\ written[k].embedding # None
          /\ written[i].embedding # written[k].embedding

\* The reads of Found items that returned Found under a strategy that
\* compares content.
FoundReadsCompared ==
    {r \in read_log : /\ r.si.state = "Found"
                      /\ r.out.res = "Found"
                      /\ should_compare_content(strategy)}

\* C25: for an item in state Found whose read returned Found, under a
\* strategy that compares content, the reader outputs Changed exactly when
\* the stored content differs from the content just read, and Unchanged
\* otherwise.
C25_FoundSettledByContent ==
    \A r \in FoundReadsCompared :
        /\ r.sent # None
        /\ r.sent[1].state =
              IF r.si.existing[1].content # unwrap_or_default(r.sent[1].item.content)
              THEN "Changed" ELSE "Unchanged"

\* C27: once a scan has succeeded, every item that read marked with a
\* skipped reason has a row carrying that reason, whichever state the
\* reconciler gave the item.
C27_SkippedReasonStored ==
    (PipelineReturned /\ AllStagesOk) =>
        \A r \in read_log :
            (r.out.res = "Found" /\ r.out.skipped # None) =>
                \E i \in DOMAIN items :
                    /\ items[i].source_id = source.id
                    /\ items[i].external_id = r.si.item.external_id
                    /\ items[i].skipped = r.out.skipped

\* C31: once scan_source has joined the stages, every stage that failed has
\* had its failure logged under its name.
C31_EveryFailureLogged ==
    cmd_pc \in {"returned", "done", "aborted"} =>
        \A n \in StageNames : stage[n] = "err" => n \in logged

\* The items a reader dropped, by their number.
DroppedSeqs == {r.si.item.seq : r \in {x \in read_log : x.sent = None}}

\* C33: in a scan where no stage failed, every item the scanner emitted was
\* either dropped by a reader, which happens exactly when its read returned
\* Omit, failed, or returned Unchanged for a New item, or written once and
\* never both; and added + changed + unchanged is the scanned count minus
\* the dropped items.
C33_DroppedOrWrittenOnce ==
    (PipelineReturned /\ AllStagesOk) =>
        /\ Cardinality({m.item.seq : m \in matched_log}) = stats.scanned
        /\ \A r \in read_log :
              r.sent = None <=>
                  \/ r.out.res \in {"Omit", "Err"}
                  \/ r.out.res = "Unchanged" /\ r.si.state = "New"
        /\ \A m \in matched_log :
              IF m.item.seq \in DroppedSeqs
              THEN WritesOf(m.item.seq) = {}
              ELSE Cardinality(WritesOf(m.item.seq)) = 1
        /\ stats.added + stats.changed + stats.unchanged
              = stats.scanned - Cardinality(DroppedSeqs)
        /\ stats.added + stats.changed + stats.unchanged = Len(written)

\* C33 witness: a scan of two items with no failed stage in which the read
\* of one returned Unchanged for a New item, which was dropped, and the
\* other item was written.
C33_Witness ==
    /\ PipelineReturned /\ AllStagesOk
    /\ stats.scanned = 2
    /\ \E r \in read_log : r.out.res = "Unchanged" /\ r.si.state = "New" /\ r.sent = None
    /\ Len(written) = 1

\* --------------------------------------------------- scan: termination

\* Every thread of the scope is scheduled: a stage that can take a step
\* (its call has returned, its channel has data or is closed) takes one,
\* and scan_source goes on once the threads it joins have finished.
ScanFairness ==
    /\ WF_vars(ScannerSend \/ ScannerExit)
    /\ WF_vars(LookupRecv \/ LookupItem \/ LookupExit)
    /\ \A w \in Readers : WF_vars(ReaderRecv(w) \/ ReaderSend(w) \/ ReaderExit(w))
    /\ WF_vars(EmbedItem \/ EmbedExit)
    /\ WF_vars(WriterBatch \/ WriterExit)
    /\ WF_vars(CreateScanner \/ Join \/ FinishScan)

\* The scans whose termination is examined: one strategy, a store that holds
\* e1, and up to MaxItems items, e1 or e2, in any batching.
InitLive ==
    /\ InitWith({"MTimeAndContent"},
                {c \in PipelineStores : c[1] = <<"row", Some(1), "this">>},
                ScanLists({NewItem(1, "e1", Some(1)), NewItem(1, "e2", Some(1))}))
    /\ BSQuiet /\ SearchQuiet /\ CallQuiet /\ CvsQuiet /\ MwQuiet

SpecLive == InitLive /\ [][NextScan]_vars /\ ScanFairness

\* C32: a scan_source that was called returns, and once any stage has
\* exited every stage eventually has.
C32_ScanTerminates ==
    /\ (cmd_pc = "started") ~> (cmd_pc \in {"returned", "done", "aborted"})
    /\ (\E n \in StageNames : Exited(n)) ~> (\A n \in StageNames : Exited(n))

\* C32 witness: the writer failed on its first batch, the embedder exited on
\* its next send, the stages above it after their input was closed, and
\* scan_source has returned.
C32_Witness ==
    /\ cmd_pc = "returned"
    /\ faults \in {{"db_write"}, {"conflict"}}
    /\ written = <<>>
    /\ \A n \in StageNames : Exited(n)
    /\ stage[Writer] = "err" /\ stage[Embedder] = "err"
    /\ stage[Scanner] = "ok" /\ stage[Lookup] = "ok"

\* ------------------------------------------- several commands, one source

\* parse_html.rs: the process version of every item of a bookmarks source.
HTML_PROCESS_VERSION == 1

\* How many scans one behaviour may start.
MaxRuns == 2

\* An item as walk_bookmarks emits it: named, with the current process
\* version.
BookmarkItem(ext, mtime) ==
    [NewItem(1, ext, mtime) EXCEPT !.process_version = HTML_PROCESS_VERSION,
                                   !.name = Some("t")]

\* What one scan of the bookmarks source finds: one bookmark.
RunScans ==
    {<<Numbered(<<BookmarkItem(e, Some(m))>>)>> : e \in {"e1"}, m \in {1, 2}} \cup {<<>>}

\* The store before the first command: nothing, or the row of "e1" as this
\* build or one with an older process version left it.
RunStores ==
    {<<>>} \cup {<<[OldRow("e1", Some(1)) EXCEPT !.id = 1, !.process_version = pv,
                                                !.name = Some("t")]>>
                   : pv \in 0..HTML_PROCESS_VERSION}

InitRuns ==
    /\ items \in RunStores
    /\ item_embeddings = {EmbeddingRow(i, 1, <<"vec", <<"old">>>>, ModelKey) : i \in DOMAIN items}
    /\ InitPipeline({"MTimeAndContent"}, RunScans)
    /\ BSQuiet /\ SearchQuiet /\ CallQuiet /\ CvsQuiet /\ MwQuiet

\* repl.rs: the command is over and the next one is read; every channel,
\* thread and counter of the finished scan is gone.
CommandDone ==
    /\ cmd_pc \in {"done", "aborted"}
    /\ Len(scan_versions) < MaxRuns
    /\ cmd_pc' = "idle"
    /\ scan_result' = "none"
    /\ to_scan' \in RunScans
    /\ item_ch' = <<>> /\ matched_ch' = <<>> /\ content_ch' = <<>> /\ emb_ch' = <<>>
    /\ stage' = [n \in StageNames |-> "idle"]
    /\ lookup_batch' = <<>>
    /\ lookup_found' = [e \in ExtIds |-> None]
    /\ reader_hold' = [w \in Readers |-> None]
    /\ batch' = <<>> /\ documents' = <<>>
    /\ stats' = ZeroStats
    /\ errored' = FALSE /\ logged' = {}
    /\ matched_log' = {} /\ read_log' = {} /\ written' = <<>>
    /\ faults' = {}
    /\ pre_items' = items /\ pre_embeddings' = item_embeddings
    /\ encode_callers' = {}
    /\ UNCHANGED <<items, item_embeddings, db_source, source, strategy, scan_versions,
                   model_at, notScanVars>>

\* The process ends and a new one starts: AppState::new reloads the source
\* list with list_sources, which reads status and index_version from the
\* sources table.
Restart ==
    /\ cmd_pc = "idle"
    /\ source' = [source EXCEPT !.status = db_source.status,
                                !.index_version = db_source.index_version]
    /\ UNCHANGED <<items, item_embeddings, db_source, cmd_pc, scan_result, strategy,
                   item_ch, matched_ch, content_ch, emb_ch, to_scan, stage,
                   lookup_batch, lookup_found, reader_hold, batch, documents, stats,
                   errored, logged, matched_log, read_log, written, faults,
                   pre_items, pre_embeddings, scan_versions, model_at, encode_callers, notScanVars>>

\* deserialize_item_row: the Item of a stored row.
deserialize_item_row(row) ==
    [source_id |-> row.source_id, external_id |-> row.external_id,
     hash |-> Some(row.hash), content |-> Some(row.content),
     process_version |-> row.process_version, skipped |-> row.skipped,
     name |-> row.name, description |-> row.description,
     mtime |-> row.modified, atime |-> row.last_accessed, id |-> row.id, seq |-> 0]

\* read_rows: the rows of the source that are not skipped, in id order.
read_rows(rows, sid) ==
    LET kept == SelectSeq(rows, LAMBDA r : r.source_id = sid /\ r.skipped = None)
    IN  [i \in DOMAIN kept |-> deserialize_item_row(kept[i])]

\* What the stored raw content of a row gives when it is extracted again:
\* none stored, a failure, or a document (title, text).
Extractions ==
    {[kind |-> "none"], [kind |-> "err"]}
    \cup {[kind |-> "doc", title |-> "t", text |-> x] : x \in {"a", "b"}}

\* A reprocess that stamps the rows it rewrites with process version 0.
reprocess_html_article_unversioned(item, ex) ==
    IF ex.kind = "none" THEN [res |-> "Unchanged", item |-> item]
    ELSE IF ex.kind = "err" THEN [res |-> "Err", item |-> item]
    ELSE IF item.name = Some(ex.title) /\ item.content = Some(ex.text)
         THEN [res |-> "Unchanged", item |-> item]
         ELSE [res |-> "Found",
               item |-> [item EXCEPT !.process_version = 0,
                                     !.name = Some(ex.title), !.content = Some(ex.text)]]

\* parse_html.rs reprocess_html_article.
reprocess_html_article(item, ex) ==
    IF ex.kind = "none" THEN [res |-> "Unchanged", item |-> item]
    ELSE IF ex.kind = "err" THEN [res |-> "Err", item |-> item]
    ELSE IF item.name = Some(ex.title) /\ item.content = Some(ex.text)
         THEN [res |-> "Unchanged", item |-> item]
         ELSE [res |-> "Found",
               item |-> [item EXCEPT !.process_version = HTML_PROCESS_VERSION,
                                     !.name = Some(ex.title), !.content = Some(ex.text)]]

\* A processor that sends on whatever was reprocessed without an error.
forwards_all(result) == result # "Err"

\* if matches!(result, SourceScannerReadResult::Found) { processed_tx.send(..) }
forwards(result) == result = "Found"

\* The orders in which the elements of a set can be taken.
Orders(S) ==
    {q \in [1..Cardinality(S) -> S] : \A a \in DOMAIN q : \A b \in DOMAIN q : a # b => q[a] # q[b]}

\* batch.into_par_iter().try_for_each(..) over the rows numbered ks: with no
\* error every row is reprocessed; once a row fails the others of the batch
\* may or may not have been taken. The rows that were reprocessed, and
\* whether the batch failed.
BatchRuns(rows, exs, ks) ==
    LET errs == {k \in ks : reprocess_html_article(rows[k], exs[k]).res = "Err"}
    IN  IF errs = {} THEN {[called |-> ks, failed |-> FALSE]}
        ELSE {[called |-> c, failed |-> TRUE] : c \in {d \in SUBSET ks : d \cap errs # {}}}

\* The ScanItems a batch sends on: one for each reprocessed row that is
\* forwarded, in state Changed, in any order.
BatchSends(rows, exs, called) ==
    LET found == {k \in called : forwards(reprocess_html_article(rows[k], exs[k]).res)}
    IN  {[n \in DOMAIN q |-> [state |-> "Changed", existing |-> None,
                              item |-> reprocess_html_article(rows[q[n]], exs[q[n]]).item]]
           : q \in Orders(found)}

\* pipeline/reprocess.rs reprocess over the batches read_rows sends (chunks
\* of EMBEDDING_BATCH_SIZE rows, the first starting at row b): the batches
\* are taken in order; `?` after try_for_each leaves the loop at the first
\* batch that failed. The rows scanner.reprocess was called on, the
\* ScanItems sent, and whether reprocess returned an error.
RECURSIVE reprocess(_, _, _)
reprocess(rows, exs, b) ==
    IF b > Len(rows) THEN {[called |-> {}, sent |-> <<>>, failed |-> FALSE]}
    ELSE LET last == IF b + EMBEDDING_BATCH_SIZE - 1 < Len(rows)
                     THEN b + EMBEDDING_BATCH_SIZE - 1 ELSE Len(rows)
         IN  UNION {
               UNION {
                 IF br.failed
                 THEN {[called |-> br.called, sent |-> s, failed |-> TRUE]}
                 ELSE {[called |-> br.called \cup rest.called, sent |-> s \o rest.sent,
                        failed |-> rest.failed]
                         : rest \in reprocess(rows, exs, b + EMBEDDING_BATCH_SIZE)}
                 : s \in BatchSends(rows, exs, br.called)}
               : br \in BatchRuns(rows, exs, b..last)}

\* calculate_embeddings over a finite input, the encoder not failing: an
\* item with no document is sent on by itself at once, the others in
\* batches of EMBEDDING_BATCH_SIZE, the last batch when the input ends.
RECURSIVE calculate_embeddings(_, _)
calculate_embeddings(input, buffered) ==
    IF input = <<>>
    THEN (IF buffered = <<>> THEN <<>>
          ELSE <<ZipEmbeddings(buffered, Encode([i \in DOMAIN buffered |-> Document(buffered[i].item)[1]]))>>)
    ELSE LET si == Head(input)
         IN  IF SkipsEmbedding(si) \/ Document(si.item) = None
             THEN <<<<[si |-> si, embedding |-> None]>>>> \o calculate_embeddings(Tail(input), buffered)
             ELSE IF Len(buffered) + 1 >= EMBEDDING_BATCH_SIZE
                  THEN <<ZipEmbeddings(Append(buffered, si),
                                       Encode([i \in 1..(Len(buffered) + 1) |->
                                                  Document(Append(buffered, si)[i].item)[1]]))>>
                       \o calculate_embeddings(Tail(input), <<>>)
                  ELSE calculate_embeddings(Tail(input), Append(buffered, si))

\* Where the writer of a run of messages may fail: nowhere, or in one
\* statement or commit of one message.
MessageFailPoints(msgs) ==
    {[m |-> 0, k |-> 0, stmt |-> "none"]}
    \cup {[m |-> m, k |-> f.k, stmt |-> f.stmt]
            : m \in DOMAIN msgs, f \in {g \in FailPoints(<<1, 2>>) : g.k # 0}}

\* update_db over a finite input: one transaction per message, stopping at
\* the first one that fails.
RECURSIVE update_db(_, _, _, _, _)
update_db(store, version, msgs, m, fail) ==
    IF m > Len(msgs) THEN store
    ELSE LET before == BeginTxn(store.rows, store.embs)
             t == EndTxn(before, RunBatch(before, version, msgs[m], 1,
                                          IF fail.m = m /\ fail.k <= Len(msgs[m]) + 1
                                          THEN [k |-> fail.k, stmt |-> fail.stmt]
                                          ELSE [k |-> 0, stmt |-> "none"]))
         IN  IF t.failed THEN [rows |-> t.rows, embs |-> t.embs]
             ELSE update_db([rows |-> t.rows, embs |-> t.embs], version, msgs, m + 1, fail)

\* What reprocess_source can do to the store as it is: for each way the
\* extractions, the processor and the writer can go, the store it leaves.
ReprocessOutcomes ==
    LET rows == read_rows(items, source.id)
    IN  UNION {
          UNION {
            {[rows |-> rows, exs |-> exs, run |-> run, fail |-> fail,
              store |-> update_db([rows |-> items, embs |-> item_embeddings],
                                  source.index_version,
                                  calculate_embeddings(run.sent, <<>>), 1, fail)]
               : fail \in MessageFailPoints(calculate_embeddings(run.sent, <<>>))}
            : run \in reprocess(rows, exs, 1)}
          : exs \in [DOMAIN rows -> Extractions]}

\* cmd/source.rs reprocess_source with pipeline/reprocess.rs
\* reprocess_source: every row of the source that is not skipped is
\* extracted again and the rows that changed are embedded and rewritten,
\* under the source's index_version as it is.
ReprocessCommand ==
    /\ cmd_pc = "idle"
    /\ \E o \in ReprocessOutcomes :
          /\ items' = o.store.rows
          /\ item_embeddings' = o.store.embs
    /\ UNCHANGED <<pipelineVars, notScanVars>>

NextRuns ==
    \/ StartScan
    \/ CreateScanner
    \/ ScannerSend
    \/ ScannerExit
    \/ LookupRecv
    \/ LookupItem
    \/ LookupExit
    \/ \E w \in Readers : ReaderRecv(w)
    \/ \E w \in Readers : ReaderSend(w)
    \/ \E w \in Readers : ReaderExit(w)
    \/ EmbedItem
    \/ EmbedExit
    \/ WriterBatch
    \/ WriterExit
    \/ Join
    \/ FinishScan
    \/ CommandDone
    \/ Restart
    \/ ReprocessCommand

SpecRuns == InitRuns /\ [][NextRuns]_vars


\* C18: every scan of the source runs with an index_version strictly
\* greater than that of every earlier scan of the source, scans started
\* after the source list was reloaded from the store included.
C18_IndexVersionIncreases ==
    \A i \in DOMAIN scan_versions : \A j \in DOMAIN scan_versions :
        i < j => scan_versions[i] < scan_versions[j]


\* C17: over any sequence of scans and reprocess runs, no step lowers the
\* process_version stored in an item row (and no row disappears).
C17_ProcessVersionNeverDecreases ==
    [][\A i \in DOMAIN items :
          /\ i \in DOMAIN items'
          /\ items'[i].process_version >= items[i].process_version]_vars

\* A row stored with an older process version has been rewritten, with new
\* content, and carries the current one.
C17_Witness ==
    \E i \in DOMAIN pre_items :
        /\ pre_items[i].process_version < items[i].process_version
        /\ items[i].process_version = HTML_PROCESS_VERSION
        /\ items[i].content # pre_items[i].content


\* ------------------------------------------------------ reprocess_source

\* Rows of the source in the store of the reprocess specification: more
\* than one batch of read_rows.
ReprocessRows == 3

\* The store before the command: each row of the source skipped or not, all
\* with the name and content an extraction "t", "a" gives, and embedded.
InitReprocess ==
    /\ \E kinds \in [1..ReprocessRows -> {"ok", "skipped"}] :
          items = [i \in 1..ReprocessRows |->
                      [OldRow(<<"item", i>>, Some(1)) EXCEPT
                          !.id = i, !.name = Some("t"),
                          !.process_version = 0,
                          !.skipped = IF kinds[i] = "skipped" THEN Some("NotFound") ELSE None]]
    /\ item_embeddings = {EmbeddingRow(i, 1, <<"vec", <<"old">>>>, ModelKey) : i \in DOMAIN items}
    /\ InitPipeline({"MTimeAndContent"}, {<<>>})
    /\ BSQuiet /\ SearchQuiet /\ CallQuiet /\ CvsQuiet /\ MwQuiet

\* The reprocess command, the history keeping what it read, what each
\* extraction gave, what the processor did and where the writer failed.
ReprocessNoted ==
    /\ cmd_pc = "idle"
    /\ call_args = None
    /\ \E o \in ReprocessOutcomes :
          /\ items' = o.store.rows
          /\ item_embeddings' = o.store.embs
          /\ call_args' = Some([fn |-> "reprocess_source", rows |-> o.rows, exs |-> o.exs])
          /\ call_result' = Some([run |-> o.run, fail |-> o.fail])
    /\ UNCHANGED <<pipelineVars, bsVars, searchVars, cvsVars, mwVars>>

SpecReprocess == InitReprocess /\ [][ReprocessNoted]_vars

\* What scanner.reprocess returned for row k of the rows read, if called.
Reprocessed(k) ==
    reprocess_html_article(call_args[1].rows[k], call_args[1].exs[k])

\* How often the row was sent to the embedder.
TimesSent(k) ==
    Cardinality({n \in DOMAIN call_result[1].run.sent :
                    call_result[1].run.sent[n].item.id = call_args[1].rows[k].id})

\* C37: in reprocess_source a row is sent to the embedder, once and in state
\* Changed, exactly when scanner.reprocess was called on it and returned
\* Found; and a row for which it returned Unchanged is left as it was in the
\* store, with its embeddings.
C37_ForwardedIffFound ==
    (call_args # None /\ call_args[1].fn = "reprocess_source") =>
        /\ \A k \in DOMAIN call_args[1].rows :
              TimesSent(k) = IF k \in call_result[1].run.called /\ Reprocessed(k).res = "Found"
                             THEN 1 ELSE 0
        /\ \A n \in DOMAIN call_result[1].run.sent :
              /\ call_result[1].run.sent[n].state = "Changed"
              /\ \E k \in DOMAIN call_args[1].rows :
                    call_result[1].run.sent[n].item = Reprocessed(k).item
        /\ \A k \in DOMAIN call_args[1].rows :
              Reprocessed(k).res # "Found" =>
                  LET id == call_args[1].rows[k].id
                  IN  /\ items[id] = pre_items[id]
                      /\ {e \in item_embeddings : e.item_id = id}
                            = {e \in pre_embeddings : e.item_id = id}

\* C37 witness: of three rows read, reprocess returned Found for two and
\* Unchanged for one; the two were sent on and rewritten, the third not.
C37_Witness ==
    /\ call_args # None /\ call_args[1].fn = "reprocess_source"
    /\ Len(call_args[1].rows) = 3
    /\ Len(call_result[1].run.sent) = 2
    /\ ~call_result[1].run.failed
    /\ \E k \in DOMAIN call_args[1].rows : Reprocessed(k).res = "Unchanged"
    /\ Cardinality({i \in DOMAIN items : items[i] # pre_items[i]}) = 2

\* C38: when scanner.reprocess fails on a row and the writer does not fail,
\* every other row read is still reprocessed, and those whose extraction
\* changed are rewritten.
C38_FailureDoesNotAbort ==
    (/\ call_args # None /\ call_args[1].fn = "reprocess_source"
     /\ call_result[1].fail.m = 0) =>
        \A k \in DOMAIN call_args[1].rows :
            Reprocessed(k).res # "Err" =>
                /\ k \in call_result[1].run.called
                /\ Reprocessed(k).res = "Found" =>
                      items[call_args[1].rows[k].id].content = Reprocessed(k).item.content[1]

\* ------------------------------------------------- batch sender: flush

\* The flush of p holds the token: from the lock to drop(lock).
Draining(p) == bs_pc[p] \in {"len", "pop", "unlock"}

\* This step is the return of a flush of p that had taken the token.
FlushReturns(p) ==
    /\ bs_pc[p] \in {"len", "pop", "unlock", "send"}
    /\ bs_pc'[p] \in {"idle", "gone"}

\* A flush(false) that finds the token taken returns at once: the buffer,
\* the channel and the token are as they were.
BusyFlushReturns(p) ==
    (bs_pc[p] = "try_lock" /\ bs_lock # 0 /\ bs_pc'[p] # "try_lock")
        => /\ bs_pc'[p] \in {"idle", "gone"}
           /\ bs_buffer' = bs_buffer
           /\ bs_sent' = bs_sent
           /\ bs_lock' = bs_lock

\* The token is exclusive while draining, and a flush never holds more
\* items than it saw in the buffer when it started.
DrainsExclusively(p) ==
    /\ Draining(p) => bs_lock = p
    /\ Len(bs_output[p]) <= bs_output_len[p]

\* C20 as stated: a flush(false) that finds the token taken returns at once
\* and removes and sends nothing; every other flush holds the token alone
\* while it drains, removes no more items than it saw on entry, and
\* forwards what it removed as exactly one message.
C20_FlushAsStated ==
    [][\A p \in Producers :
          /\ BusyFlushReturns(p)
          /\ DrainsExclusively(p)
          /\ FlushReturns(p) => bs_sent' = Append(bs_sent, bs_output[p])]_vars

\* C20: a flush(false) that finds the token taken returns at once and
\* removes and sends nothing; every other flush holds the token alone while
\* it drains and removes no more items than it saw on entry. A flush that
\* saw an empty buffer releases the token and sends no message; any other
\* one hands what it removed, at least one item, to the channel in one
\* send, which is one message downstream unless the receiver is gone.
C20_FlushDrainsOnce ==
    [][\A p \in Producers :
          /\ BusyFlushReturns(p)
          /\ DrainsExclusively(p)
          /\ FlushReturns(p) =>
                IF bs_pc[p] = "len"
                THEN /\ bs_buffer = <<>>
                     /\ bs_buffer' = bs_buffer
                     /\ bs_sent' = bs_sent
                     /\ bs_lock' = 0
                ELSE /\ bs_output[p] # <<>>
                     /\ bs_buffer' = bs_buffer
                     /\ bs_sent' = IF bs_rx_open THEN Append(bs_sent, bs_output[p])
                                   ELSE bs_sent]_vars

\* One thread's flush(false) found the token taken and returned, and
\* another thread's flush sent a batch.
C20_Witness ==
    \E p \in Producers : \E q \in Producers :
        /\ bs_last[p] = "busy"
        /\ bs_last[q] = "sent"
        /\ bs_sent # <<>>


\* ---------------------------------------------------- CountingVecSender

Clones == 1..NumClones

\* The batches one clone may be asked to send: Vec<T> of 0..MaxBatchLen
\* items, each item named by its position.
CloneBatches == {[i \in 1..n |-> i] : n \in 0..MaxBatchLen}

RECURSIVE SumLen(_)
SumLen(bs) == IF bs = <<>> THEN 0 ELSE Len(Head(bs)) + SumLen(Tail(bs))

InitCounting ==
    /\ cvs_count = 0
    /\ cvs_pc = [c \in Clones |-> "idle"]
    /\ cvs_todo \in [Clones -> SeqsUpTo(CloneBatches, BatchesPerClone)]
    /\ cvs_ch = <<>>
    /\ cvs_rx_open = TRUE
    /\ cvs_passed = <<>>
    /\ cvs_received = <<>>
    /\ ScanQuiet /\ BSQuiet /\ SearchQuiet /\ CallQuiet /\ MwQuiet

\* A counter that counts batches instead of items.
fetch_add_one(count, n) == count + 1

\* self.count.fetch_add(batch.len() as u64, Ordering::Relaxed)
fetch_add(count, n) == count + n

\* send, first half: the counter is bumped by the length of the batch.
CvsFetchAdd(c) ==
    /\ cvs_pc[c] = "idle"
    /\ cvs_todo[c] # <<>>
    /\ cvs_count' = fetch_add(cvs_count, Len(Head(cvs_todo[c])))
    /\ cvs_passed' = Append(cvs_passed, Head(cvs_todo[c]))
    /\ cvs_pc' = [cvs_pc EXCEPT ![c] = "send"]
    /\ UNCHANGED <<cvs_todo, cvs_ch, cvs_rx_open, cvs_received, notCvsVars>>

\* send, second half: self.tx.send(batch), which fails once the receiver
\* is gone (the batch goes back to the caller inside the error).
CvsTxSend(c) ==
    /\ cvs_pc[c] = "send"
    /\ cvs_ch' = IF cvs_rx_open THEN Append(cvs_ch, Head(cvs_todo[c])) ELSE cvs_ch
    /\ cvs_todo' = [cvs_todo EXCEPT ![c] = Tail(@)]
    /\ cvs_pc' = [cvs_pc EXCEPT ![c] = "idle"]
    /\ UNCHANGED <<cvs_count, cvs_rx_open, cvs_passed, cvs_received, notCvsVars>>

\* The receiver takes the next batch.
CvsRecv ==
    /\ cvs_rx_open
    /\ cvs_ch # <<>>
    /\ cvs_received' = Append(cvs_received, Head(cvs_ch))
    /\ cvs_ch' = Tail(cvs_ch)
    /\ UNCHANGED <<cvs_count, cvs_pc, cvs_todo, cvs_rx_open, cvs_passed, notCvsVars>>

\* The receiver is dropped, and with it what the channel still holds.
CvsReceiverDrop ==
    /\ cvs_rx_open
    /\ cvs_rx_open' = FALSE
    /\ cvs_ch' = <<>>
    /\ UNCHANGED <<cvs_count, cvs_pc, cvs_todo, cvs_passed, cvs_received, notCvsVars>>

NextCounting ==
    \/ \E c \in Clones : CvsFetchAdd(c)
    \/ \E c \in Clones : CvsTxSend(c)
    \/ CvsRecv
    \/ CvsReceiverDrop

SpecCounting == InitCounting /\ [][NextCounting]_vars

\* C21: whatever the clones have sent, the shared counter is the sum of the
\* lengths of the batches passed to send, and so it is never smaller than
\* the number of items the receiver has been given.
C21_CounterIsSumOfLengths ==
    /\ cvs_count = SumLen(cvs_passed)
    /\ cvs_count >= SumLen(cvs_received)

\* Both clones have sent, batches of different lengths among them, one send
\* failed because the receiver was gone, and the receiver was given items.
C21_Witness ==
    /\ \A c \in Clones : cvs_pc[c] = "idle" /\ cvs_todo[c] = <<>>
    /\ Len(cvs_passed) > Len(cvs_received)
    /\ SumLen(cvs_received) > 1
    /\ \E i \in DOMAIN cvs_passed : Len(cvs_passed[i]) = 0
    /\ ~cvs_rx_open


\* ------------------------------------------ BatchSender: one producer

\* BatchSender::new(t, tx) used by one thread that adds n items and then
\* drops the sender (the tests of batch_sender.rs), for every threshold t
\* and every n tried.
InitSingle ==
    /\ bs_buffer = <<>>
    /\ bs_threshold \in 1..MaxThreshold
    /\ bs_lock = 0
    /\ bs_handles = 1
    /\ bs_pc = [p \in Producers |-> IF p = 1 THEN "idle" ELSE "gone"]
    /\ \E n \in 0..MaxAdds :
          bs_todo = [p \in Producers |-> IF p = 1 THEN [i \in 1..n |-> <<1, i>>] ELSE <<>>]
    /\ bs_output_len = [p \in Producers |-> 0]
    /\ bs_output = [p \in Producers |-> <<>>]
    /\ bs_rx_open = TRUE
    /\ bs_sent = <<>>
    /\ bs_accepted = {}
    /\ bs_last = [p \in Producers |-> "none"]
    /\ ScanQuiet /\ SearchQuiet /\ CallQuiet /\ CvsQuiet /\ MwQuiet

SpecSingle == InitSingle /\ [][NextBatch]_vars

\* The first k items the producer adds.
FirstAdded(k) == [i \in 1..k |-> <<1, i>>]

\* q cut into consecutive chunks of t items, the last one shorter when t
\* does not divide Len(q); full_only leaves that last one out.
Chunked(q, t, full_only) ==
    LET whole == Len(q) \div t
        count == IF full_only \/ Len(q) % t = 0 THEN whole ELSE whole + 1
    IN  [k \in 1..count |->
            SubSeq(q, (k - 1) * t + 1, IF k * t < Len(q) THEN k * t ELSE Len(q))]

\* C22: with one producer and a live receiver, what was delivered after k
\* adds is the first k items cut into chunks of exactly t in insertion
\* order, the rest waiting in the buffer; once the sender is dropped the
\* remaining n mod t items have been delivered as a last batch; no batch
\* is empty, and nothing is delivered when n = 0.
C22_ConsecutiveChunks ==
    bs_rx_open =>
        LET k == Cardinality(bs_accepted)
        IN  /\ \A i \in DOMAIN bs_sent : bs_sent[i] # <<>>
            /\ bs_pc[1] = "idle" =>
                  /\ bs_sent = Chunked(FirstAdded(k), bs_threshold, TRUE)
                  /\ bs_buffer = SubSeq(FirstAdded(k), k - (k % bs_threshold) + 1, k)
            /\ bs_pc[1] = "gone" =>
                  /\ bs_todo[1] = <<>>
                  /\ bs_buffer = <<>>
                  /\ bs_sent = Chunked(FirstAdded(k), bs_threshold, FALSE)

\* Five items through a sender of threshold 2 that has been dropped: two
\* full batches and a last one of one item.
C22_Witness ==
    /\ bs_rx_open
    /\ bs_threshold = 2
    /\ bs_pc[1] = "gone"
    /\ bs_sent = <<FirstAdded(2), <<<<1, 3>>, <<1, 4>>>>, <<<<1, 5>>>>>>

\* ------------------------------------------------------- model worker
\* model/worker.rs: the thread that owns the model. Callers build a command
\* with a oneshot reply channel and send it through a flume channel; the
\* worker receives them one by one.

MaxCommands == 3
MaxSenders == 2

\* What encode_tokens does with the tokens of a command: it returns a
\* tensor, returns a RustBertError, or panics inside tch.
EncodeOutcomes == {"Ok", "Err", "Panic"}

\* ModelWorkerCommandData::build(input): the command, whose reply goes to a
\* oneshot receiver the caller may or may not still hold when it is sent.
build(id, input, listening) == [id |-> id, data |-> input, listening |-> listening]

\* The same handler without catch_unwind: a panic unwinds out of it.
catch_unwind_Absent(outcome) ==
    CASE outcome = "Ok" -> "Ok"
      [] outcome = "Err" -> "Err"
      [] outcome = "Panic" -> "Unwound"

\* catch_unwind(|| self.encode_tokens(msg.data)) and the match on it: the
\* result handed to return_value.send.
catch_unwind(outcome) ==
    CASE outcome = "Ok" -> "Ok"
      [] outcome = "Err" -> "Err"
      [] outcome = "Panic" -> "ModelPanic"

InitWorker ==
    /\ mw_rx = <<>>
    /\ mw_senders \in 1..MaxSenders
    /\ mw_pc = "recv"
    /\ mw_msg = None
    /\ mw_next = 0
    /\ mw_replies = [i \in 1..MaxCommands |-> <<>>]
    /\ mw_order = <<>>
    /\ ScanQuiet /\ BSQuiet /\ SearchQuiet /\ CallQuiet /\ CvsQuiet

\* A caller builds a command and sends it on a live Sender.
ClientSend ==
    /\ mw_senders > 0
    /\ mw_next < MaxCommands
    /\ \E input \in EncodeOutcomes, listening \in BOOLEAN :
          mw_rx' = Append(mw_rx, build(mw_next + 1, input, listening))
    /\ mw_next' = mw_next + 1
    /\ UNCHANGED <<mw_senders, mw_pc, mw_msg, mw_replies, mw_order, notMwVars>>

\* A caller drops its Sender.
ClientDrop ==
    /\ mw_senders > 0
    /\ mw_senders' = mw_senders - 1
    /\ UNCHANGED <<mw_rx, mw_pc, mw_msg, mw_next, mw_replies, mw_order, notMwVars>>

\* rx.recv() returns Ok(msg): the oldest waiting command.
WorkerRecv ==
    /\ mw_pc = "recv"
    /\ mw_rx # <<>>
    /\ mw_msg' = Some(Head(mw_rx))
    /\ mw_rx' = Tail(mw_rx)
    /\ mw_pc' = "handling"
    /\ UNCHANGED <<mw_senders, mw_next, mw_replies, mw_order, notMwVars>>

\* handle_encode_msg: encode under catch_unwind, send the result on the
\* command's oneshot channel (ignoring a receiver that is gone), and go
\* back to rx.recv().
handle_encode_msg ==
    /\ mw_pc = "handling"
    /\ LET msg == mw_msg[1]
           result == catch_unwind(msg.data)
       IN  /\ mw_order' = Append(mw_order, msg.id)
           /\ IF result = "Unwound"
              THEN /\ mw_pc' = "panicked"
                   /\ UNCHANGED mw_replies
              ELSE /\ mw_pc' = "recv"
                   /\ mw_replies' = [mw_replies EXCEPT ![msg.id] =
                          Append(@, [result |-> result, delivered |-> msg.listening])]
    /\ mw_msg' = None
    /\ UNCHANGED <<mw_rx, mw_senders, mw_next, notMwVars>>

\* rx.recv() returns Err: every Sender is gone and nothing is waiting.
WorkerExit ==
    /\ mw_pc = "recv"
    /\ mw_rx = <<>>
    /\ mw_senders = 0
    /\ mw_pc' = "exited"
    /\ UNCHANGED <<mw_rx, mw_senders, mw_msg, mw_next, mw_replies, mw_order, notMwVars>>

\* sentence_embeddings_model_worker: the loop.
sentence_embeddings_model_worker == WorkerRecv \/ handle_encode_msg \/ WorkerExit

NextWorker == ClientSend \/ ClientDrop \/ WorkerRecv \/ handle_encode_msg \/ WorkerExit

\* The worker is a thread of its own: it is scheduled whenever it can step.
SpecWorker == InitWorker /\ [][NextWorker]_vars /\ WF_vars(sentence_embeddings_model_worker)

\* Commands the worker has finished handling.
Handled == {mw_order[i] : i \in DOMAIN mw_order}

\* C39: the worker handles commands one at a time in arrival order and
\* hands exactly one result to each command's reply channel; a panic in
\* encoding becomes a ModelPanic reply and the worker goes on to the next
\* command; it exits only once the channel is closed and drained, and then
\* it does exit; every command sent is eventually answered.
C39_WorkerServesInOrder ==
    /\ [](/\ mw_order = [i \in 1..Len(mw_order) |-> i]
          /\ mw_pc = "handling" <=> mw_msg # None
          /\ mw_msg # None => mw_msg[1].id = Len(mw_order) + 1
          /\ \A id \in 1..MaxCommands :
                Len(mw_replies[id]) = (IF id \in Handled THEN 1 ELSE 0)
          /\ \A id \in Handled :
                mw_replies[id][1].result \in {"Ok", "Err", "ModelPanic"}
          /\ mw_pc \in {"recv", "handling", "exited"}
          /\ mw_pc = "exited" =>
                mw_senders = 0 /\ mw_rx = <<>> /\ Len(mw_order) = mw_next)
    /\ [][\A id \in 1..MaxCommands :
             mw_replies'[id] # mw_replies[id] =>
                /\ mw_msg = Some(build(id, mw_msg[1].data, mw_msg[1].listening))
                /\ mw_replies'[id] =
                      <<[result |-> catch_unwind(mw_msg[1].data),
                         delivered |-> mw_msg[1].listening]>>
                /\ mw_msg[1].data = "Panic" =>
                      mw_replies'[id][1].result = "ModelPanic" /\ mw_pc' = "recv"]_vars
    /\ \A id \in 1..MaxCommands : (mw_next >= id) ~> (id \in Handled)
    /\ (mw_senders = 0) ~> (mw_pc = "exited")

\* A command whose encoding panicked was answered with ModelPanic, the one
\* after it was answered with a tensor, and the worker has exited after the
\* last sender was dropped.
C39_Witness ==
    /\ mw_pc = "exited"
    /\ mw_order = <<1, 2, 3>>
    /\ mw_replies[1] = <<[result |-> "ModelPanic", delivered |-> TRUE]>>
    /\ mw_replies[2] = <<[result |-> "Ok", delivered |-> TRUE]>>
    /\ mw_replies[3] = <<[result |-> "Err", delivered |-> FALSE]>>

====
